---- MODULE Spec2Model ----
(***************************************************************************)
(* The ledger core of the 5-Liber-Wette application (src/main.py): the Pot *)
(* with its transaction history, the cached balance, the last-reset stamp, *)
(* the persisted copy and the handlers that mutate them.                   *)
(*                                                                         *)
(* Money is counted in thousandths of a franc, so that an input with more  *)
(* than two decimals is representable and q() has something to round: 5000 *)
(* is 5.00 CHF, 10 is one cent.  Each action is one handler's critical     *)
(* section (the body of its "with lock:"), together with save_state() when *)
(* the handler reaches it; the lock is free between two actions.  An edit  *)
(* or a delete acts on a row of the current history.  Persistence is the   *)
(* JSON file unless USE_DB is set, and save_state succeeds but in the       *)
(* actions named ..._save_fails.  selected and dialog are the table        *)
(* selection and the open delete dialog of one browser client; the ledger  *)
(* operations may come from any client.  The actions named thr_... are the *)
(* same handlers thread by thread, with the lock, the threads' positions   *)
(* and their local variables as state.                                     *)
(*                                                                         *)
(* op and ret record which operation made the last step and what it        *)
(* returned: the message of the code by its category ("ok",                *)
(* "InvalidAmount" for "... muss > 0 sein", "InsufficientFunds" for        *)
(* "... uebersteigt den Saldo" and "... hat nur ... verfuegbar",           *)
(* "SameParty" for "... duerfen nicht identisch sein").  The arguments of  *)
(* a step are recovered in the properties from the action that made it.    *)
(***************************************************************************)
EXTENDS Integers, Sequences, FiniteSets, TLC

VARIABLES
    balance,     \* Pot.balance
    history,     \* Pot.history, in insertion order
    last_reset,  \* Pot.last_reset: <<>> for None, <<t>> for a datetime
    disk,        \* the persisted JSON document: <<>> while the file is absent
    op,          \* the operation that made the last step
    ret,         \* what that operation returned
    USE_DB,      \* bool(DATABASE_URL): the relational backend is in use
    selected,    \* table.selected of one client: <<>> or <<row id>>
    dialog,      \* the delete dialog that client has open: <<>> or <<idx>>
    lock,        \* threading.Lock: 0 when free, else the thread that holds it
    pc,          \* where each thread stands in the handler it runs
    loc,         \* the local variables of that handler
    during       \* per thread: the histories there have been, since its
                 \* export began, beside the last_reset the export has read
                 \* (a history variable, not in the code)

vars == <<balance, history, last_reset, disk, op, ret, USE_DB, selected, dialog,
          lock, pc, loc, during>>
potvars == <<balance, history, last_reset>>
uivars == <<selected, dialog>>
thrvars == <<lock, pc, loc, during>>

----------------------------------------------------------------------------
(* Bounds and input sets *)

MaxHist == 2

CENT == 10
STAKE == 5000

\* raw amounts a caller passes: one that rounds to zero, one that rounds up to
\* 2.00, and 5.00; raw stakes: one that rounds to zero and the standard stake
Amounts == {4, 1995, STAKE}
Stakes == {4, STAKE}
Threads == {1, 2}
\* raw amounts typed into the edit dialog of a purchase: the same, and 7.00
EditAmounts == Amounts \cup {7000}
Participants == {"Sven", "Sevi"}
Comments == {" x "}
Times == {1}

----------------------------------------------------------------------------
(* Money *)

Abs(x) == IF x < 0 THEN -x ELSE x

\* q with the rounding mode ROUND_CEILING
q_ceiling(amount) ==
    IF amount % CENT = 0 THEN amount ELSE ((amount \div CENT) + 1) * CENT

\* Decimal.quantize(CENT) under ROUND_HALF_UP: to the nearest cent, ties away
\* from zero
q(amount) ==
    LET r == ((Abs(amount) + CENT \div 2) \div CENT) * CENT
    IN  IF amount < 0 THEN -r ELSE r

\* str(q(x)) / f"{q(x):.2f}": sign, francs and the two decimal digits
DecStr(x) ==
    LET v == q(x)
    IN  [neg |-> v < 0, francs |-> Abs(v) \div 1000, cents |-> (Abs(v) % 1000) \div CENT]

\* Decimal(s).quantize(CENT) of such a string
ParseDec(s) ==
    LET m == s.francs * 1000 + s.cents * CENT
    IN  q(IF s.neg THEN -m ELSE m)

----------------------------------------------------------------------------
(* Text *)

\* sub in s
Contains(s, sub) ==
    \E i \in 1..(Len(s) - Len(sub) + 1) : SubSeq(s, i, i + Len(sub) - 1) = sub

RECURSIVE LStrip(_)
LStrip(s) ==
    IF Len(s) > 0 /\ SubSeq(s, 1, 1) = " " THEN LStrip(SubSeq(s, 2, Len(s))) ELSE s

RECURSIVE RStrip(_)
RStrip(s) ==
    IF Len(s) > 0 /\ SubSeq(s, Len(s), Len(s)) = " "
    THEN RStrip(SubSeq(s, 1, Len(s) - 1)) ELSE s

\* str.strip()
Strip(s) == RStrip(LStrip(s))

\* ", ".join(xs)
RECURSIVE Join(_)
Join(xs) ==
    IF Len(xs) = 0 THEN ""
    ELSE IF Len(xs) = 1 THEN xs[1]
    ELSE xs[1] \o ", " \o Join(Tail(xs))

----------------------------------------------------------------------------
(* Transaction and Pot *)

Kind == {"BET", "BEER", "TRANSFER"}

Transaction(timestamp, kind, losers, comment, delta, payer, receiver, transfer_amount) ==
    [timestamp |-> timestamp, kind |-> kind, losers |-> losers, comment |-> comment,
     delta |-> delta, payer |-> payer, receiver |-> receiver,
     transfer_amount |-> transfer_amount]

\* recalc_balance that leaves the purchases out
RECURSIVE SumBetDelta(_)
SumBetDelta(h) ==
    IF h = <<>> THEN 0
    ELSE (IF Head(h).kind = "BET" THEN Head(h).delta ELSE 0) + SumBetDelta(Tail(h))

recalc_balance_bets_only(h) == q(SumBetDelta(h))

\* Pot.recalc_balance: the sum of delta over the BET and BEER entries
RECURSIVE SumDelta(_)
SumDelta(h) ==
    IF h = <<>> THEN 0
    ELSE (IF Head(h).kind \in {"BET", "BEER"} THEN Head(h).delta ELSE 0) + SumDelta(Tail(h))

recalc_balance(h) == q(SumDelta(h))

\* PersonStep that debits the payer of a transfer and credits nobody
PersonStep_no_credit(acc, t) ==
    IF t.kind = "BET" /\ t.delta > 0 THEN
        LET svenL == Contains(t.losers, "Sven verliert")
            seviL == Contains(t.losers, "Sevi verliert")
            n == (IF svenL THEN 1 ELSE 0) + (IF seviL THEN 1 ELSE 0)
        IN  IF n = 0 THEN acc
            ELSE LET share == q(t.delta \div n)
                 IN  <<acc[1] + (IF svenL THEN share ELSE 0),
                       acc[2] + (IF seviL THEN share ELSE 0)>>
    ELSE IF t.kind = "BEER" /\ t.delta < 0 THEN
        IF t.payer = "Sven" THEN <<acc[1] + t.delta, acc[2]>>
        ELSE IF t.payer = "Sevi" THEN <<acc[1], acc[2] + t.delta>>
        ELSE acc
    ELSE IF t.kind = "TRANSFER" THEN
        LET amt == q(t.transfer_amount)
        IN  IF t.payer = "Sven" THEN <<acc[1] - amt, acc[2]>>
            ELSE IF t.payer = "Sevi" THEN <<acc[1], acc[2] - amt>>
            ELSE acc
    ELSE acc

\* PersonStep that gives each of two losers the whole deposit
PersonStep_no_split(acc, t) ==
    IF t.kind = "BET" /\ t.delta > 0 THEN
        <<acc[1] + (IF Contains(t.losers, "Sven verliert") THEN q(t.delta) ELSE 0),
          acc[2] + (IF Contains(t.losers, "Sevi verliert") THEN q(t.delta) ELSE 0)>>
    ELSE IF t.kind = "BEER" /\ t.delta < 0 THEN
        IF t.payer = "Sven" THEN <<acc[1] + t.delta, acc[2]>>
        ELSE IF t.payer = "Sevi" THEN <<acc[1], acc[2] + t.delta>>
        ELSE acc
    ELSE IF t.kind = "TRANSFER" THEN
        LET amt == q(t.transfer_amount)
            a1 == IF t.payer = "Sven" THEN <<acc[1] - amt, acc[2]>>
                  ELSE IF t.payer = "Sevi" THEN <<acc[1], acc[2] - amt>>
                  ELSE acc
        IN  IF t.receiver = "Sven" THEN <<a1[1] + amt, a1[2]>>
            ELSE IF t.receiver = "Sevi" THEN <<a1[1], a1[2] + amt>>
            ELSE a1
    ELSE acc

\* PersonStep that takes a purchase off nobody's total
PersonStep_no_purchase(acc, t) ==
    IF t.kind = "BET" /\ t.delta > 0 THEN
        LET svenL == Contains(t.losers, "Sven verliert")
            seviL == Contains(t.losers, "Sevi verliert")
            n == (IF svenL THEN 1 ELSE 0) + (IF seviL THEN 1 ELSE 0)
        IN  IF n = 0 THEN acc
            ELSE LET share == q(t.delta \div n)
                 IN  <<acc[1] + (IF svenL THEN share ELSE 0),
                       acc[2] + (IF seviL THEN share ELSE 0)>>
    ELSE IF t.kind = "BEER" /\ t.delta < 0 THEN
        acc
    ELSE IF t.kind = "TRANSFER" THEN
        LET amt == q(t.transfer_amount)
            a1 == IF t.payer = "Sven" THEN <<acc[1] - amt, acc[2]>>
                  ELSE IF t.payer = "Sevi" THEN <<acc[1], acc[2] - amt>>
                  ELSE acc
        IN  IF t.receiver = "Sven" THEN <<a1[1] + amt, a1[2]>>
            ELSE IF t.receiver = "Sevi" THEN <<a1[1], a1[2] + amt>>
            ELSE a1
    ELSE acc

\* one iteration of the loop of Pot.person_totals; acc = <<sven, sevi>>
PersonStep(acc, t) ==
    IF t.kind = "BET" /\ t.delta > 0 THEN
        LET svenL == Contains(t.losers, "Sven verliert")
            seviL == Contains(t.losers, "Sevi verliert")
            n == (IF svenL THEN 1 ELSE 0) + (IF seviL THEN 1 ELSE 0)
        IN  IF n = 0 THEN acc
            ELSE LET share == q(t.delta \div n)
                 IN  <<acc[1] + (IF svenL THEN share ELSE 0),
                       acc[2] + (IF seviL THEN share ELSE 0)>>
    ELSE IF t.kind = "BEER" /\ t.delta < 0 THEN
        IF t.payer = "Sven" THEN <<acc[1] + t.delta, acc[2]>>
        ELSE IF t.payer = "Sevi" THEN <<acc[1], acc[2] + t.delta>>
        ELSE acc
    ELSE IF t.kind = "TRANSFER" THEN
        LET amt == q(t.transfer_amount)
            a1 == IF t.payer = "Sven" THEN <<acc[1] - amt, acc[2]>>
                  ELSE IF t.payer = "Sevi" THEN <<acc[1], acc[2] - amt>>
                  ELSE acc
        IN  IF t.receiver = "Sven" THEN <<a1[1] + amt, a1[2]>>
            ELSE IF t.receiver = "Sevi" THEN <<a1[1], a1[2] + amt>>
            ELSE a1
    ELSE acc

RECURSIVE TotalsLoop(_, _)
TotalsLoop(h, acc) ==
    IF h = <<>> THEN acc ELSE TotalsLoop(Tail(h), PersonStep(acc, Head(h)))

\* Pot.person_totals: <<sven, sevi>>
person_totals(h) ==
    LET r == TotalsLoop(h, <<0, 0>>) IN <<q(r[1]), q(r[2])>>

----------------------------------------------------------------------------
(* Persistence, JSON backend *)

to_dict(t) ==
    [timestamp |-> t.timestamp, kind |-> t.kind, losers |-> t.losers,
     comment |-> t.comment, delta |-> DecStr(t.delta), payer |-> t.payer,
     receiver |-> t.receiver, transfer_amount |-> DecStr(t.transfer_amount)]

from_dict(d) ==
    Transaction(d.timestamp, d.kind, d.losers, d.comment, ParseDec(d.delta),
                d.payer, d.receiver, ParseDec(d.transfer_amount))

\* Pot.to_data
to_data(b, h, lr) ==
    [balance |-> DecStr(b),
     history |-> [i \in 1..Len(h) |-> to_dict(h[i])],
     last_reset |-> lr]

\* a row of the table "transactions"; the id is the position in the table,
\* the rows being added in the order of pot.history
TransactionRow(t) ==
    [timestamp |-> t.timestamp, kind |-> t.kind, losers |-> t.losers,
     comment |-> t.comment, delta |-> q(t.delta), payer |-> t.payer,
     receiver |-> t.receiver, transfer_amount |-> q(t.transfer_amount)]

\* db_save_state_full: all rows deleted and written anew, MetaRow 1 set
db_save_state_full(h, lr) ==
    [transactions |-> [i \in 1..Len(h) |-> TransactionRow(h[i])], meta |-> lr]

\* order_by(timestamp.asc(), id.asc()): r goes behind the rows that are not
\* later than it
RECURSIVE InsertByTimestamp(_, _)
InsertByTimestamp(sorted, r) ==
    IF sorted = <<>> THEN <<r>>
    ELSE IF Head(sorted).timestamp <= r.timestamp
    THEN <<Head(sorted)>> \o InsertByTimestamp(Tail(sorted), r)
    ELSE <<r>> \o sorted

RECURSIVE order_by(_)
order_by(rows) ==
    IF rows = <<>> THEN <<>>
    ELSE InsertByTimestamp(order_by(SubSeq(rows, 1, Len(rows) - 1)), rows[Len(rows)])

\* db_load_state: the history built from the ordered rows
db_load_history(db) ==
    LET rows == order_by(db.transactions)
    IN  [i \in 1..Len(rows) |->
            Transaction(rows[i].timestamp, rows[i].kind, rows[i].losers, rows[i].comment,
                        q(rows[i].delta), rows[i].payer, rows[i].receiver,
                        q(rows[i].transfer_amount))]

\* save_state that does not write last_reset
save_state_no_reset(b, h, lr) ==
    IF USE_DB THEN <<db_save_state_full(h, <<>>)>> ELSE <<to_data(b, h, <<>>)>>

\* save_state: the whole document, or the whole table, is overwritten
save_state(b, h, lr) ==
    IF USE_DB THEN <<db_save_state_full(h, lr)>> ELSE <<to_data(b, h, lr)>>

----------------------------------------------------------------------------
(* The operations *)

Ret(status) == [status |-> status, totals |-> <<>>]

\* the frame of a thread that runs no handler and has no dialog open: idx is
\* the idx a dialog was opened with, t the position in pot.history of the
\* Transaction object the dialog refers to (0 when the object is in the
\* history no more, obj then holding it), pay, amt and avail the values
\* apply_change has read, lr the last_reset export_csv has read
NoLoc == [idx |-> 0, t |-> 0, obj |-> <<>>, pay |-> "", amt |-> 0, avail |-> 0,
          lr |-> <<>>]

Init ==
    /\ balance = 0
    /\ history = <<>>
    /\ last_reset = <<>>
    /\ disk = <<>>
    /\ op = "init"
    /\ ret = Ret("ok")
    /\ USE_DB = FALSE
    /\ selected = <<>>
    /\ dialog = <<>>
    /\ lock = 0
    /\ pc = [c \in Threads |-> "idle"]
    /\ loc = [c \in Threads |-> NoLoc]
    /\ during = [c \in Threads |-> {}]

\* what Pot.add_bet appends: the losers text and the deposit
BetLosers(sven_right, sevi_right) ==
    LET l1 == IF ~sven_right THEN <<"Sven verliert">> ELSE <<>>
        l2 == IF ~sevi_right THEN l1 \o <<"Sevi verliert">> ELSE l1
    IN  IF l2 = <<>> THEN <<"beide richtig">> ELSE l2

\* the deposit counted once however many lost
BetDeposit_once(sven_right, sevi_right, stake) ==
    IF ~sven_right \/ ~sevi_right THEN stake ELSE 0

BetDeposit(sven_right, sevi_right, stake) ==
    (IF ~sven_right THEN stake ELSE 0) + (IF ~sevi_right THEN stake ELSE 0)

\* dlg_neue_wette.submit: Pot.add_bet, then save_state; a stake that is not
\* positive is refused (by submit, as by Pot.add_bet) and nothing is saved
add_bet(sven_right, sevi_right, comment, rawstake, now) ==
    LET stake == q(rawstake)
        deposit == BetDeposit(sven_right, sevi_right, stake)
        losers_text == Join(BetLosers(sven_right, sevi_right))
        clean_comment == IF comment # "" THEN Strip(comment) ELSE ""
    IN  /\ op' = "add_bet"
        /\ IF stake <= 0 THEN
               /\ ret' = Ret("InvalidAmount")
               /\ UNCHANGED <<potvars, disk>>
           ELSE
               /\ Len(history) < MaxHist
               /\ balance' = q(balance + deposit)
               /\ history' = Append(history,
                      Transaction(now, "BET", losers_text, clean_comment, q(deposit), "", "", 0))
               /\ ret' = Ret("ok")
               /\ UNCHANGED last_reset
               /\ disk' = save_state(balance', history', last_reset')

\* the refusals of Pot.pay_beer, in the order the code tests them
pay_beer_check(b, amount) ==
    IF amount <= 0 THEN "InvalidAmount"
    ELSE IF amount > b THEN "InsufficientFunds"
    ELSE "ok"

\* pay_beer that puts the new entry in front of the history
pay_beer_prepending(rawamount, payer, comment, now) ==
    LET amount == q(rawamount)
        status == pay_beer_check(balance, amount)
    IN  /\ op' = "pay_beer"
        /\ ret' = Ret(status)
        /\ IF status # "ok" THEN
               UNCHANGED <<potvars, disk>>
           ELSE
               /\ Len(history) < MaxHist
               /\ balance' = q(balance - amount)
               /\ history' = <<Transaction(now, "BEER", "Bier bezahlt", Strip(comment),
                                           -amount, payer, "", 0)>> \o history
               /\ UNCHANGED last_reset
               /\ disk' = save_state(balance', history', last_reset')

\* dlg_bier_bezahlen.submit: Pot.pay_beer, save_state only when it succeeded
pay_beer(rawamount, payer, comment, now) ==
    LET amount == q(rawamount)
        status == pay_beer_check(balance, amount)
    IN  /\ op' = "pay_beer"
        /\ ret' = Ret(status)
        /\ IF status # "ok" THEN
               UNCHANGED <<potvars, disk>>
           ELSE
               /\ Len(history) < MaxHist
               /\ balance' = q(balance - amount)
               /\ history' = Append(history,
                      Transaction(now, "BEER", "Bier bezahlt", Strip(comment), -amount, payer, "", 0))
               /\ UNCHANGED last_reset
               /\ disk' = save_state(balance', history', last_reset')

\* available with the two totals swapped
available_swapped(h, payer) ==
    LET totals == person_totals(h)
    IN  IF payer = "Sven" THEN totals[2] ELSE totals[1]

\* Pot.transfer: what the payer may transfer
available(h, payer) ==
    LET totals == person_totals(h)
    IN  IF payer = "Sven" THEN totals[1] ELSE totals[2]

\* transfer_check that looks at the funds before it compares the parties
transfer_check_funds_first(h, amount, payer, receiver) ==
    IF amount <= 0 THEN "InvalidAmount"
    ELSE IF amount > available(h, payer) THEN "InsufficientFunds"
    ELSE IF payer = receiver THEN "SameParty"
    ELSE "ok"

\* transfer_check that does not compare the parties
transfer_check_any_party(h, amount, payer, receiver) ==
    IF amount <= 0 THEN "InvalidAmount"
    ELSE IF amount > available(h, payer) THEN "InsufficientFunds"
    ELSE "ok"

\* the refusals of Pot.transfer, in the order the code tests them
transfer_check(h, amount, payer, receiver) ==
    IF amount <= 0 THEN "InvalidAmount"
    ELSE IF payer = receiver THEN "SameParty"
    ELSE IF amount > available(h, payer) THEN "InsufficientFunds"
    ELSE "ok"

\* tr_submit / dlg_ausgleich.do_book: Pot.transfer, save_state when it succeeded
transfer(rawamount, payer, receiver, comment, now) ==
    LET amount == q(rawamount)
        status == transfer_check(history, amount, payer, receiver)
    IN  /\ op' = "transfer"
        /\ ret' = Ret(status)
        /\ IF status # "ok" THEN
               UNCHANGED <<potvars, disk>>
           ELSE
               /\ Len(history) < MaxHist
               /\ history' = Append(history,
                      Transaction(now, "TRANSFER", "", comment, 0, payer, receiver, amount))
               /\ UNCHANGED <<balance, last_reset>>
               /\ disk' = save_state(balance', history', last_reset')

\* a reset that zeroes the balance and stamps last_reset but keeps the entries
reset_soft(now) ==
    /\ op' = "reset"
    /\ balance' = 0
    /\ UNCHANGED history
    /\ last_reset' = <<now>>
    /\ ret' = Ret("ok")
    /\ disk' = save_state(balance', history', last_reset')

\* do_reset.yes: Pot.reset, then save_state
reset(now) ==
    /\ op' = "reset"
    /\ balance' = 0
    /\ history' = <<>>
    /\ last_reset' = <<now>>
    /\ ret' = Ret("ok")
    /\ disk' = save_state(balance', history', last_reset')

\* tr_update_info with a person_totals that stores the sum of the two totals
\* as the balance
tr_update_info_caching ==
    /\ op' = "person_totals"
    /\ ret' = [status |-> "ok", totals |-> person_totals(history)]
    /\ balance' = person_totals(history)[1] + person_totals(history)[2]
    /\ UNCHANGED <<history, last_reset, disk>>

\* tr_update_info: the query under the lock
tr_update_info ==
    /\ op' = "person_totals"
    /\ ret' = [status |-> "ok", totals |-> person_totals(history)]
    /\ UNCHANGED <<potvars, disk>>

\* refresh_top: recalc_balance and person_totals under the lock
refresh_top ==
    /\ op' = "refresh_top"
    /\ balance' = recalc_balance(history)
    /\ ret' = [status |-> "ok", totals |-> person_totals(history)]
    /\ UNCHANGED <<history, last_reset, disk>>

----------------------------------------------------------------------------
(* Editing and deleting the selected row *)

ReplaceAt(h, idx, t) == [h EXCEPT ![idx] = t]
RemoveAt(h, idx) == SubSeq(h, 1, idx - 1) \o SubSeq(h, idx + 1, Len(h))

\* edit_bet_apply_change without pot.recalc_balance()
edit_bet_apply_change_no_recalc(idx, var_sven, var_sevi, rawstake, comment) ==
    LET t == history[idx]
        new_losers == (IF var_sven THEN <<"Sven verliert">> ELSE <<>>)
                      \o (IF var_sevi THEN <<"Sevi verliert">> ELSE <<>>)
        n == Len(new_losers)
        new_stake == q(rawstake)
        deposit == IF n > 0 THEN q(new_stake * n) ELSE 0
    IN  /\ t.kind = "BET"
        /\ op' = "edit_bet"
        /\ IF n > 0 /\ new_stake <= 0 THEN
               /\ ret' = Ret("InvalidAmount")
               /\ UNCHANGED <<potvars, disk>>
           ELSE
               /\ history' = ReplaceAt(history, idx,
                      [t EXCEPT !.losers = IF n > 0 THEN Join(new_losers) ELSE "beide richtig",
                                !.comment = Strip(comment),
                                !.delta = deposit])
               /\ ret' = Ret("ok")
               /\ UNCHANGED <<balance, last_reset>>
               /\ disk' = save_state(balance', history', last_reset')

\* open_edit_bet_dialog.apply_change on the entry at idx (a BET)
edit_bet_apply_change(idx, var_sven, var_sevi, rawstake, comment) ==
    LET t == history[idx]
        new_losers == (IF var_sven THEN <<"Sven verliert">> ELSE <<>>)
                      \o (IF var_sevi THEN <<"Sevi verliert">> ELSE <<>>)
        n == Len(new_losers)
        new_stake == q(rawstake)
        deposit == IF n > 0 THEN q(new_stake * n) ELSE 0
    IN  /\ t.kind = "BET"
        /\ op' = "edit_bet"
        /\ IF n > 0 /\ new_stake <= 0 THEN
               /\ ret' = Ret("InvalidAmount")
               /\ UNCHANGED <<potvars, disk>>
           ELSE
               /\ history' = ReplaceAt(history, idx,
                      [t EXCEPT !.losers = IF n > 0 THEN Join(new_losers) ELSE "beide richtig",
                                !.comment = Strip(comment),
                                !.delta = deposit])
               /\ balance' = recalc_balance(history')
               /\ ret' = Ret("ok")
               /\ UNCHANGED last_reset
               /\ disk' = save_state(balance', history', last_reset')

\* open_edit_beer_dialog.apply_change on the entry at idx (a BEER)
edit_beer_apply_change(idx, payer, rawamount, comment) ==
    LET t == history[idx]
        amt == q(rawamount)
    IN  /\ t.kind = "BEER"
        /\ op' = "edit_beer"
        /\ IF amt <= 0 THEN
               /\ ret' = Ret("InvalidAmount")
               /\ UNCHANGED <<potvars, disk>>
           ELSE
               /\ history' = ReplaceAt(history, idx,
                      [t EXCEPT !.payer = payer, !.comment = Strip(comment), !.delta = -amt])
               /\ balance' = recalc_balance(history')
               /\ ret' = Ret("ok")
               /\ UNCHANGED last_reset
               /\ disk' = save_state(balance', history', last_reset')

\* open_edit_transfer_dialog.update_info: the payer's total with the edited
\* transfer neutralised
edit_transfer_avail(h, t, pay) ==
    LET tot == person_totals(h)
        sven_total == IF t.payer = "Sven" THEN tot[1] + t.transfer_amount
                      ELSE IF t.payer = "Sevi" THEN tot[1] - t.transfer_amount
                      ELSE tot[1]
        sevi_total == IF t.payer = "Sven" THEN tot[2] - t.transfer_amount
                      ELSE IF t.payer = "Sevi" THEN tot[2] + t.transfer_amount
                      ELSE tot[2]
    IN  IF pay = "Sven" THEN sven_total ELSE sevi_total

\* open_edit_transfer_dialog.apply_change on the entry at idx (a TRANSFER)
edit_transfer_apply_change(idx, pay, rawamount, comment) ==
    LET t == history[idx]
        amt == q(rawamount)
        rec == IF pay = "Sven" THEN "Sevi" ELSE "Sven"
        avail == edit_transfer_avail(history, t, pay)
    IN  /\ t.kind = "TRANSFER"
        /\ op' = "edit_transfer"
        /\ IF amt <= 0 THEN
               /\ ret' = Ret("InvalidAmount")
               /\ UNCHANGED <<potvars, disk>>
           ELSE IF amt > avail THEN
               /\ ret' = Ret("InsufficientFunds")
               /\ UNCHANGED <<potvars, disk>>
           ELSE
               /\ history' = ReplaceAt(history, idx,
                      [t EXCEPT !.payer = pay, !.receiver = rec, !.transfer_amount = amt,
                                !.comment = Strip(comment)])
               /\ ret' = Ret("ok")
               /\ UNCHANGED <<balance, last_reset>>
               /\ disk' = save_state(balance', history', last_reset')

\* delete_selected.confirm_delete with the idx the dialog was opened for:
\* "del pot.history[idx]" raises IndexError when the history has become shorter
confirm_delete(idx) ==
    /\ op' = "delete"
    /\ IF idx \in 1..Len(history) THEN
           /\ history' = RemoveAt(history, idx)
           /\ balance' = recalc_balance(history')
           /\ ret' = Ret("ok")
           /\ UNCHANGED last_reset
           /\ disk' = save_state(balance', history', last_reset')
       ELSE
           /\ ret' = Ret("IndexError")
           /\ UNCHANGED <<potvars, disk>>

----------------------------------------------------------------------------
(* The table selection and the dialogs of one client.  A row id is the      *)
(* position of the entry in the history the table was built from (counted  *)
(* from 1 here, from 0 in the code); refreshing the table does not clear   *)
(* the selection.                                                          *)

\* a click on a row of the freshly built table
select_row(idx) ==
    /\ idx \in 1..Len(history)
    /\ op' = "select_row"
    /\ ret' = Ret("ok")
    /\ selected' = <<idx>>
    /\ UNCHANGED <<potvars, disk, USE_DB, dialog, thrvars>>

\* the checks at the head of open_edit_bet_dialog, open_edit_beer_dialog and
\* open_edit_transfer_dialog, kind being the kind the dialog edits
open_edit_dialog(h, kind, idx) ==
    IF idx < 1 \/ idx > Len(h) THEN "NotFound"
    ELSE IF h[idx].kind # kind THEN "WrongKind"
    ELSE "ok"

\* edit_selected: pot.history[idx] is read before any range check, then the
\* dialog of the entry's kind is opened
edit_selected ==
    /\ op' = "edit_selected"
    /\ ret' = IF selected = <<>> THEN Ret("NoSelection")
              ELSE IF selected[1] > Len(history) THEN Ret("IndexError")
              ELSE Ret(open_edit_dialog(history, history[selected[1]].kind, selected[1]))
    /\ UNCHANGED <<potvars, disk, USE_DB, uivars, thrvars>>

\* delete_selected: the range check, then the confirmation dialog for idx
delete_selected ==
    /\ op' = "delete_selected"
    /\ IF selected = <<>> THEN
           ret' = Ret("NoSelection") /\ UNCHANGED dialog
       ELSE IF selected[1] < 1 \/ selected[1] > Len(history) THEN
           ret' = Ret("NotFound") /\ UNCHANGED dialog
       ELSE
           ret' = Ret("ok") /\ dialog' = <<selected[1]>>
    /\ UNCHANGED <<potvars, disk, USE_DB, selected, thrvars>>

\* the button "Loeschen" of the open dialog: confirm_delete, and dialog.close()
\* when it came through
confirm_delete_click ==
    /\ dialog # <<>>
    /\ confirm_delete(dialog[1])
    /\ dialog' = IF ret'.status = "ok" THEN <<>> ELSE dialog
    /\ UNCHANGED <<USE_DB, selected, thrvars>>

\* the button "Abbrechen" of the open dialog
dialog_close ==
    /\ dialog # <<>>
    /\ op' = "dialog_close"
    /\ ret' = Ret("ok")
    /\ dialog' = <<>>
    /\ UNCHANGED <<potvars, disk, USE_DB, selected, thrvars>>

----------------------------------------------------------------------------
(* CSV import *)

RequiredHeader == {"timestamp", "kind", "delta", "losers", "payer", "receiver",
                   "transfer_amount", "comment"}

\* str.lower() on the column names that occur
Lower(hname) == IF hname = "Timestamp" THEN "timestamp"
                ELSE IF hname = "KIND" THEN "kind"
                ELSE hname

\* a decimal cell: ok is whether Decimal() accepts the text, mills its value
Dec(m) == [ok |-> TRUE, mills |-> m]
BadDec == [ok |-> FALSE, mills |-> 0]

\* a timestamp cell: ok is whether datetime.fromisoformat accepts the text
Ts(t) == [ok |-> TRUE, t |-> t]
BadTs == [ok |-> FALSE, t |-> 0]

\* one record of the DictReader; extra: it has more cells than the header has
\* names (the surplus is stored under the key None, and k.lower() raises)
Row(kind, delta, losers, payer, receiver, transfer_amount, comment) ==
    [timestamp |-> Ts(1), kind |-> kind, delta |-> delta, losers |-> losers,
     payer |-> payer, receiver |-> receiver, transfer_amount |-> transfer_amount,
     comment |-> comment, extra |-> FALSE]

RowBetBoth == Row("BET", Dec(10), "Sven verliert, Sevi verliert", "", "", Dec(0), "x")
RowBetSven == Row("BET", Dec(4996), "Sven verliert", "", "", Dec(0), "x")
RowBeerSevi == Row("BEER", Dec(-2000), "Bier bezahlt", "Sevi", "", Dec(0), "x")
RowTransfer == Row("TRANSFER", Dec(0), "", "Sven", "Sevi", Dec(2000), "Ausgleich")
RowBadKind == Row("WETTE", Dec(5000), "Sven verliert", "", "", Dec(0), "x")
RowBadDec == Row("BET", BadDec, "Sven verliert", "", "", Dec(0), "x")
RowBadTs == [RowBetSven EXCEPT !.timestamp = BadTs]

CsvFile(lr, header, rows) == [last_reset |-> lr, header |-> header, rows |-> rows]

ImportFiles ==
    { CsvFile(<<>>, RequiredHeader, <<RowBetBoth>>),
      CsvFile(<<1>>, (RequiredHeader \ {"timestamp", "kind"}) \cup {"Timestamp", "KIND"},
              <<RowBetSven, RowBeerSevi>>),
      CsvFile(<<>>, RequiredHeader, <<RowBetSven, RowTransfer>>),
      CsvFile(<<1>>, RequiredHeader \ {"comment"}, <<RowBetSven>>),
      CsvFile(<<1>>, RequiredHeader, <<RowBetSven, RowBadKind>>),
      CsvFile(<<1>>, RequiredHeader, <<RowBadDec>>),
      CsvFile(<<1>>, RequiredHeader, <<RowBeerSevi, RowBadTs>>),
      CsvFile(<<>>, {}, <<>>) }

\* the body of the loop over the reader raises nothing on r
RowOk(r) ==
    ~r.extra /\ r.timestamp.ok /\ r.kind \in Kind /\ r.delta.ok /\ r.transfer_amount.ok

ParseRow(r) ==
    Transaction(r.timestamp.t, r.kind, r.losers, r.comment, q(r.delta.mills),
                r.payer, r.receiver, q(r.transfer_amount.mills))

\* handle_upload that appends each row to pot.history as soon as it is parsed,
\* so that the rows before a bad one stay
handle_upload_partial(file) ==
    /\ op' = "import"
    /\ IF file.header = {} THEN
           /\ ret' = Ret("EmptyFile")
           /\ UNCHANGED <<potvars, disk>>
       ELSE IF {Lower(hname) : hname \in file.header} # RequiredHeader THEN
           /\ ret' = Ret("BadHeader")
           /\ UNCHANGED <<potvars, disk>>
       ELSE IF \E i \in 1..Len(file.rows) : ~RowOk(file.rows[i]) THEN
           LET bad == CHOOSE i \in 1..Len(file.rows) :
                          ~RowOk(file.rows[i]) /\ \A j \in 1..(i - 1) : RowOk(file.rows[j])
           IN  /\ ret' = Ret("MalformedRecord")
               /\ history' = [i \in 1..(bad - 1) |-> ParseRow(file.rows[i])]
               /\ balance' = recalc_balance(history')
               /\ UNCHANGED <<last_reset, disk>>
       ELSE
           /\ Len(file.rows) <= MaxHist
           /\ history' = [i \in 1..Len(file.rows) |-> ParseRow(file.rows[i])]
           /\ balance' = recalc_balance(history')
           /\ last_reset' = file.last_reset
           /\ ret' = Ret("ok")
           /\ disk' = save_state(balance', history', last_reset')

\* handle_upload
handle_upload(file) ==
    /\ op' = "import"
    /\ IF file.header = {} THEN
           /\ ret' = Ret("EmptyFile")
           /\ UNCHANGED <<potvars, disk>>
       ELSE IF {Lower(hname) : hname \in file.header} # RequiredHeader THEN
           /\ ret' = Ret("BadHeader")
           /\ UNCHANGED <<potvars, disk>>
       ELSE IF \E i \in 1..Len(file.rows) : ~RowOk(file.rows[i]) THEN
           /\ ret' = Ret("MalformedRecord")
           /\ UNCHANGED <<potvars, disk>>
       ELSE
           /\ Len(file.rows) <= MaxHist
           /\ history' = [i \in 1..Len(file.rows) |-> ParseRow(file.rows[i])]
           /\ balance' = recalc_balance(history')
           /\ last_reset' = file.last_reset
           /\ ret' = Ret("ok")
           /\ disk' = save_state(balance', history', last_reset')

----------------------------------------------------------------------------
(* CSV export, and the text side of the import *)

IsoTimes == {1, 2}

\* datetime.isoformat() of the times that occur
isoformat(t) ==
    IF t = 1 THEN "2025-01-01T12:00:00+01:00" ELSE "2025-01-02T12:00:00+01:00"

\* datetime.fromisoformat
fromisoformat(text) ==
    IF \E t \in IsoTimes : isoformat(t) = text
    THEN Ts(CHOOSE t \in IsoTimes : isoformat(t) = text)
    ELSE BadTs

Digit(d) == SubSeq("0123456789", d + 1, d + 1)
IsDigit(ch) == \E d \in 0..9 : Digit(d) = ch
DigitVal(ch) == CHOOSE d \in 0..9 : Digit(d) = ch

RECURSIVE IntStr(_)
IntStr(n) == IF n < 10 THEN Digit(n) ELSE IntStr(n \div 10) \o Digit(n % 10)

RECURSIVE StrInt(_)
StrInt(text) ==
    IF text = "" THEN 0
    ELSE StrInt(SubSeq(text, 1, Len(text) - 1)) * 10
         + DigitVal(SubSeq(text, Len(text), Len(text)))

\* f"{q(x):.2f}"
Fmt2f(x) ==
    LET v == q(x)
        a == Abs(v)
    IN  (IF v < 0 THEN "-" ELSE "") \o IntStr(a \div 1000) \o "."
        \o Digit((a % 1000) \div 100) \o Digit((a % 100) \div CENT)

\* Decimal(text) for plain notation (sign, digits, fraction); the value is cut
\* to thousandths, which keeps every rounding of .quantize(CENT)
Decimal(text) ==
    LET neg == Len(text) > 0 /\ SubSeq(text, 1, 1) = "-"
        body == IF neg THEN SubSeq(text, 2, Len(text)) ELSE text
        dots == {i \in 1..Len(body) : SubSeq(body, i, i) = "."}
        dot == IF dots = {} THEN Len(body) + 1 ELSE CHOOSE i \in dots : TRUE
        ip == SubSeq(body, 1, dot - 1)
        fp == SubSeq(body, dot + 1, Len(body))
        ok == /\ Cardinality(dots) <= 1
              /\ Len(ip) + Len(fp) > 0
              /\ \A i \in 1..Len(ip) : IsDigit(SubSeq(ip, i, i))
              /\ \A i \in 1..Len(fp) : IsDigit(SubSeq(fp, i, i))
        m == StrInt(ip) * 1000 + StrInt(SubSeq(fp \o "000", 1, 3))
    IN  IF ok THEN Dec(IF neg THEN -m ELSE m) ELSE BadDec

HasChar(text, chars) == \E i \in 1..Len(text) : SubSeq(text, i, i) \in chars

\* the position of the first character of text that is in chars, Len(text) + 1
\* if there is none
FirstOf(text, chars) ==
    LET P == {i \in 1..Len(text) : SubSeq(text, i, i) \in chars}
    IN  IF P = {} THEN Len(text) + 1 ELSE CHOOSE i \in P : \A k \in P : i <= k

Rest(text, i) == SubSeq(text, i, Len(text))

RECURSIVE DoubleQuotes(_)
DoubleQuotes(text) ==
    LET j == FirstOf(text, {"\""})
    IN  IF j > Len(text) THEN text
        ELSE SubSeq(text, 1, j) \o "\"" \o DoubleQuotes(Rest(text, j + 1))

\* one cell as csv.writer writes it (QUOTE_MINIMAL)
WriteCell(text) ==
    IF HasChar(text, {",", "\"", "\r", "\n"})
    THEN "\"" \o DoubleQuotes(text) \o "\""
    ELSE text

RECURSIVE JoinCells(_)
JoinCells(cells) ==
    IF Len(cells) = 0 THEN ""
    ELSE IF Len(cells) = 1 THEN WriteCell(cells[1])
    ELSE WriteCell(cells[1]) \o "," \o JoinCells(Tail(cells))

\* csv.writer.writerow
writerow(cells) == JoinCells(cells) \o "\r\n"

CsvHeader == <<"timestamp", "kind", "delta", "losers", "payer", "receiver",
               "transfer_amount", "comment">>

RECURSIVE ExportRows(_)
ExportRows(h) ==
    IF h = <<>> THEN ""
    ELSE LET t == Head(h)
         IN  writerow(<<isoformat(t.timestamp), t.kind, Fmt2f(t.delta), t.losers,
                        t.payer, t.receiver, Fmt2f(t.transfer_amount), t.comment>>)
             \o ExportRows(Tail(h))

\* export_csv: the text of the download for last_reset lr and history h
export_csv(h, lr) ==
    (IF lr # <<>> THEN "# last_reset=" \o isoformat(lr[1]) \o "\n" ELSE "")
    \o writerow(CsvHeader) \o ExportRows(h)

\* the line boundaries of str.splitlines that occur: LF, CR and form feed
LineBreaks == {"\n", "\r", "\f"}

\* str.splitlines
RECURSIVE splitlines(_)
splitlines(text) ==
    IF text = "" THEN <<>>
    ELSE LET i == FirstOf(text, LineBreaks)
         IN  IF i > Len(text) THEN <<text>>
             ELSE LET crlf == /\ SubSeq(text, i, i) = "\r" /\ i < Len(text)
                              /\ SubSeq(text, i + 1, i + 1) = "\n"
                      n == IF crlf THEN i + 2 ELSE i + 1
                  IN  <<SubSeq(text, 1, i - 1)>> \o splitlines(Rest(text, n))

StartsWith(text, pre) == Len(text) >= Len(pre) /\ SubSeq(text, 1, Len(pre)) = pre

\* the loop over the leading "#" lines of handle_upload
RECURSIVE SkipComments(_, _)
SkipComments(lines, lr) ==
    IF lines # <<>> /\ StartsWith(Head(lines), "#") THEN
        LET line == Head(lines)
            val == Strip(SubSeq(line, Len("# last_reset=") + 1, Len(line)))
            lr2 == IF StartsWith(line, "# last_reset=") /\ val # "" /\ fromisoformat(val).ok
                   THEN <<fromisoformat(val).t>> ELSE lr
        IN  SkipComments(Tail(lines), lr2)
    ELSE [lines |-> lines, last_reset |-> lr]

\* csv.reader on (the rest of) one line: st is "start" at the start of a
\* cell, "plain" inside an unquoted one, "quoted" inside a quoted one and "qq"
\* after a quote inside a quoted one
RECURSIVE ReadCells(_, _, _, _)
ReadCells(line, st, cell, rec) ==
    IF st = "quoted" THEN
        LET j == FirstOf(line, {"\""})
        IN  IF j > Len(line) THEN [st |-> "quoted", cell |-> cell \o line, rec |-> rec]
            ELSE ReadCells(Rest(line, j + 1), "qq", cell \o SubSeq(line, 1, j - 1), rec)
    ELSE IF line = "" THEN [st |-> st, cell |-> cell, rec |-> rec]
    ELSE IF st = "qq" /\ SubSeq(line, 1, 1) = "\"" THEN
        ReadCells(Rest(line, 2), "quoted", cell \o "\"", rec)
    ELSE IF st = "start" /\ SubSeq(line, 1, 1) = "\"" THEN
        ReadCells(Rest(line, 2), "quoted", cell, rec)
    ELSE
        LET j == FirstOf(line, {","})
        IN  IF j > Len(line) THEN [st |-> "plain", cell |-> cell \o line, rec |-> rec]
            ELSE ReadCells(Rest(line, j + 1), "start", "",
                           Append(rec, cell \o SubSeq(line, 1, j - 1)))

\* csv.reader over the list of lines: a quoted cell that is open at the end of
\* a line goes on in the next line; an empty line gives an empty record
RECURSIVE reader(_, _, _, _)
reader(lines, st, cell, rec) ==
    IF lines = <<>> THEN (IF st = "quoted" THEN <<Append(rec, cell)>> ELSE <<>>)
    ELSE LET r == ReadCells(Head(lines), st, cell, rec)
         IN  IF r.st = "quoted" THEN reader(Tail(lines), "quoted", r.cell, r.rec)
             ELSE IF Head(lines) = "" /\ st = "start" THEN
                 <<<<>>>> \o reader(Tail(lines), "start", "", <<>>)
             ELSE <<Append(r.rec, r.cell)>> \o reader(Tail(lines), "start", "", <<>>)

\* d[name] of a DictReader row with the keys lowered; a missing cell is ""
CellOf(names, rec, name) ==
    LET J == {j \in 1..Len(names) : Lower(names[j]) = name}
    IN  IF J = {} THEN ""
        ELSE LET j == CHOOSE k \in J : \A l \in J : l <= k
             IN  IF j <= Len(rec) THEN rec[j] ELSE ""

\* the cells of one record as handle_upload converts them; an empty timestamp
\* cell is datetime.now, an empty decimal cell is "0.00"
ToRow(names, rec) ==
    LET ts == CellOf(names, rec, "timestamp")
        delta == CellOf(names, rec, "delta")
        t_amt == CellOf(names, rec, "transfer_amount")
    IN  [timestamp |-> IF ts = "" THEN Ts(1) ELSE fromisoformat(ts),
         kind |-> CellOf(names, rec, "kind"),
         delta |-> Decimal(IF delta = "" THEN "0.00" ELSE delta),
         losers |-> CellOf(names, rec, "losers"),
         payer |-> CellOf(names, rec, "payer"),
         receiver |-> CellOf(names, rec, "receiver"),
         transfer_amount |-> Decimal(IF t_amt = "" THEN "0.00" ELSE t_amt),
         comment |-> CellOf(names, rec, "comment"),
         extra |-> Len(rec) > Len(names)]

\* what handle_upload reads out of the text of an upload: the last_reset line,
\* the names of the header and the records (the DictReader skips empty ones)
ParseUpload(text) ==
    LET sk == SkipComments(splitlines(text), <<>>)
    IN  IF sk.lines = <<>> THEN CsvFile(sk.last_reset, {}, <<>>)
        ELSE LET recs == reader(sk.lines, "start", "", <<>>)
                 names == Head(recs)
                 data == SelectSeq(Tail(recs), LAMBDA r : r # <<>>)
             IN  CsvFile(sk.last_reset,
                         IF names = <<>> THEN {""} ELSE {names[j] : j \in 1..Len(names)},
                         [i \in 1..Len(data) |-> ToRow(names, data[i])])

\* handle_upload on the text of an upload
handle_upload_text(text) == handle_upload(ParseUpload(text))

----------------------------------------------------------------------------
(* Process start *)

\* Pot.from_data followed by Pot.recalc_balance
from_data_history(data) == [i \in 1..Len(data.history) |-> from_dict(data.history[i])]

\* a file that open() or json.load() cannot read
Unreadable == [unreadable |-> TRUE]
IsUnreadable(doc) == DOMAIN doc = {"unreadable"}

\* a document with a record Transaction.from_dict raises on: Kind(d["kind"])
\* knows no such kind
Malformed(doc) == \E i \in 1..Len(doc.history) : doc.history[i].kind \notin Kind

\* load_state without the call of recalc_balance on a document: the stored
\* balance is kept
load_state_trusting ==
    /\ op' = "load"
    /\ IF disk = <<>> THEN
           /\ balance' = 0
           /\ history' = <<>>
           /\ last_reset' = <<>>
           /\ ret' = Ret("ok")
       ELSE IF USE_DB THEN
           /\ history' = db_load_history(disk[1])
           /\ last_reset' = disk[1].meta
           /\ balance' = recalc_balance(history')
           /\ ret' = Ret("ok")
       ELSE IF IsUnreadable(disk[1]) THEN
           /\ balance' = 0
           /\ history' = <<>>
           /\ last_reset' = <<>>
           /\ ret' = Ret("UncaughtException")
       ELSE IF Malformed(disk[1]) THEN
           /\ balance' = q(ParseDec(disk[1].balance))
           /\ history' = <<>>
           /\ last_reset' = <<>>
           /\ ret' = Ret("UncaughtException")
       ELSE
           /\ history' = from_data_history(disk[1])
           /\ last_reset' = disk[1].last_reset
           /\ balance' = q(ParseDec(disk[1].balance))
           /\ ret' = Ret("ok")
    /\ UNCHANGED disk

\* a new process: pot = Pot(), then load_state() at module level; disk = <<>>
\* is the absent file, or the tables db_init has just created.  Nothing
\* catches what open, json.load or Pot.from_data raise: the exception ends the
\* process ("UncaughtException"), after from_data has assigned the balance
\* when it is a record that is malformed
load_state ==
    /\ op' = "load"
    /\ IF disk = <<>> THEN
           /\ balance' = 0
           /\ history' = <<>>
           /\ last_reset' = <<>>
           /\ ret' = Ret("ok")
       ELSE IF USE_DB THEN
           /\ history' = db_load_history(disk[1])
           /\ last_reset' = disk[1].meta
           /\ balance' = recalc_balance(history')
           /\ ret' = Ret("ok")
       ELSE IF IsUnreadable(disk[1]) THEN
           /\ balance' = 0
           /\ history' = <<>>
           /\ last_reset' = <<>>
           /\ ret' = Ret("UncaughtException")
       ELSE IF Malformed(disk[1]) THEN
           /\ balance' = q(ParseDec(disk[1].balance))
           /\ history' = <<>>
           /\ last_reset' = <<>>
           /\ ret' = Ret("UncaughtException")
       ELSE
           /\ history' = from_data_history(disk[1])
           /\ last_reset' = disk[1].last_reset
           /\ balance' = recalc_balance(history')
           /\ ret' = Ret("ok")
    /\ UNCHANGED disk

\* the file is replaced from outside the program while it runs or is down
external_edit(doc) ==
    /\ disk' = <<doc>>
    /\ UNCHANGED <<potvars, op, ret, USE_DB, uivars, thrvars>>

----------------------------------------------------------------------------
(* save_state raising (the directory or the file cannot be written, the    *)
(* disk is full), after the handler has changed the ledger in memory.  The *)
(* "with lock:" releases the lock on the way out; what the user then sees  *)
(* is the handler's "except Exception" notification when it has one:       *)
(* "Ungueltiger Betrag." / "Ungueltige Eingabe." ("InvalidInput"), the     *)
(* notification an amount that is not a number gets.                       *)

\* what a failed write leaves: the old file when open() failed, a file cut
\* short when the write failed after open(..., "w") had truncated it
FailedDisk(d) == {d, <<Unreadable>>}

\* tr_submit with an amount Decimal() cannot parse: InvalidOperation, caught
\* by "except Exception"
tr_submit_unparsable ==
    /\ op' = "transfer"
    /\ ret' = Ret("InvalidInput")
    /\ UNCHANGED <<potvars, disk>>

\* tr_submit: Pot.transfer has appended, save_state raises
transfer_save_fails(rawamount, payer, receiver, comment, now, d) ==
    LET amount == q(rawamount)
    IN  /\ transfer_check(history, amount, payer, receiver) = "ok"
        /\ Len(history) < MaxHist
        /\ op' = "transfer"
        /\ history' = Append(history,
               Transaction(now, "TRANSFER", "", comment, 0, payer, receiver, amount))
        /\ UNCHANGED <<balance, last_reset>>
        /\ disk' = d
        /\ ret' = Ret("InvalidInput")

\* dlg_bier_bezahlen.submit: Pot.pay_beer has appended, save_state raises
pay_beer_save_fails(rawamount, payer, comment, now, d) ==
    LET amount == q(rawamount)
    IN  /\ pay_beer_check(balance, amount) = "ok"
        /\ Len(history) < MaxHist
        /\ op' = "pay_beer"
        /\ balance' = q(balance - amount)
        /\ history' = Append(history,
               Transaction(now, "BEER", "Bier bezahlt", Strip(comment), -amount, payer, "", 0))
        /\ UNCHANGED last_reset
        /\ disk' = d
        /\ ret' = Ret("InvalidInput")

\* confirm_delete: the entry is removed, save_state raises; no try statement
\* is around it, the exception leaves the handler
confirm_delete_save_fails(idx, d) ==
    /\ idx \in 1..Len(history)
    /\ op' = "delete"
    /\ history' = RemoveAt(history, idx)
    /\ balance' = recalc_balance(history')
    /\ UNCHANGED last_reset
    /\ disk' = d
    /\ ret' = Ret("UncaughtException")

----------------------------------------------------------------------------
(* The handlers thread by thread.  A step is one holding of the lock, from  *)
(* its "with lock:" to the save_state() that ends it, which is a step of   *)
(* its own (thr_save_state): between the two the thread holds the lock and *)
(* the file is behind the memory.  A holding that only reads, or that      *)
(* refuses and returns, is a single step.  A dialog is the thread waiting  *)
(* at "del_dialog" or "et_dialog".  The t of an edit dialog is a reference *)
(* to a Transaction object: loc[c].t follows the object through the        *)
(* history as other threads delete, and is 0 once the object is in the     *)
(* history no more.                                                        *)

\* the Transaction object the dialog of the frame l refers to
Tval(l) == IF l.t > 0 THEN history[l.t] ELSE l.obj[1]

\* the frame l after history[removed] was deleted
AfterDel(l, removed) ==
    IF l.t = 0 THEN l
    ELSE IF l.t = removed THEN [l EXCEPT !.t = 0, !.obj = <<history[removed]>>]
    ELSE IF l.t > removed THEN [l EXCEPT !.t = l.t - 1]
    ELSE l

\* the frame l after history.clear()
AfterClear(l) ==
    IF l.t = 0 THEN l ELSE [l EXCEPT !.t = 0, !.obj = <<history[l.t]>>]

\* dlg_neue_wette.submit with the standard stake: Pot.add_bet under the lock
thr_submit(c, sven_right, sevi_right, now) ==
    LET deposit == BetDeposit(sven_right, sevi_right, STAKE)
    IN  /\ pc[c] = "idle" /\ lock = 0
        /\ Len(history) < MaxHist
        /\ lock' = c
        /\ balance' = q(balance + deposit)
        /\ history' = Append(history,
               Transaction(now, "BET", Join(BetLosers(sven_right, sevi_right)), "",
                           q(deposit), "", "", 0))
        /\ pc' = [pc EXCEPT ![c] = "save"]
        /\ op' = "add_bet"
        /\ ret' = Ret("ok")
        /\ UNCHANGED <<last_reset, disk, loc, USE_DB, uivars>>

\* save_state() at the end of the holding, and the end of the "with lock:"
thr_save_state(c) ==
    /\ pc[c] = "save" /\ lock = c
    /\ disk' = save_state(balance, history, last_reset)
    /\ lock' = 0
    /\ pc' = [pc EXCEPT ![c] = "idle"]
    /\ loc' = [loc EXCEPT ![c] = NoLoc]
    /\ UNCHANGED <<potvars, op, ret, USE_DB, uivars>>

\* do_reset.yes: Pot.reset under the lock
thr_yes(c, now) ==
    /\ pc[c] = "idle" /\ lock = 0
    /\ lock' = c
    /\ balance' = 0
    /\ history' = <<>>
    /\ last_reset' = <<now>>
    /\ pc' = [pc EXCEPT ![c] = "save"]
    /\ loc' = [d \in Threads |-> AfterClear(loc[d])]
    /\ op' = "reset"
    /\ ret' = Ret("ok")
    /\ UNCHANGED <<disk, USE_DB, uivars>>

\* tr_submit: tr_update_info gives the receiver, then Pot.transfer under the
\* lock; a refusal returns out of the "with lock:"
thr_tr_submit(c, rawamount, payer, now) ==
    LET amount == q(rawamount)
        receiver == IF payer = "Sven" THEN "Sevi" ELSE "Sven"
        status == transfer_check(history, amount, payer, receiver)
    IN  /\ pc[c] = "idle" /\ lock = 0
        /\ op' = "transfer"
        /\ ret' = Ret(status)
        /\ IF status # "ok" THEN
               UNCHANGED <<potvars, disk, lock, pc, loc, USE_DB, uivars>>
           ELSE
               /\ Len(history) < MaxHist
               /\ lock' = c
               /\ history' = Append(history,
                      Transaction(now, "TRANSFER", "", "Ausgleich", 0, payer, receiver, amount))
               /\ pc' = [pc EXCEPT ![c] = "save"]
               /\ UNCHANGED <<balance, last_reset, disk, loc, USE_DB, uivars>>

\* delete_selected on a row of the table as it stands: the range check and
\* t = pot.history[idx] under the lock, then the dialog
thr_delete_selected(c, idx) ==
    /\ pc[c] = "idle" /\ lock = 0
    /\ idx \in 1..Len(history)
    /\ pc' = [pc EXCEPT ![c] = "del_dialog"]
    /\ loc' = [loc EXCEPT ![c] = [NoLoc EXCEPT !.idx = idx, !.t = idx]]
    /\ op' = "delete_selected"
    /\ ret' = Ret("ok")
    /\ UNCHANGED <<potvars, disk, lock, USE_DB, uivars>>

\* confirm_delete: "del pot.history[idx]" under the lock, with the idx of the
\* dialog; an IndexError leaves the handler, the dialog stays open
thr_confirm_delete(c) ==
    /\ pc[c] = "del_dialog" /\ lock = 0
    /\ op' = "delete"
    /\ IF loc[c].idx \in 1..Len(history) THEN
           /\ lock' = c
           /\ history' = RemoveAt(history, loc[c].idx)
           /\ balance' = recalc_balance(history')
           /\ pc' = [pc EXCEPT ![c] = "save"]
           /\ loc' = [d \in Threads |-> AfterDel(loc[d], loc[c].idx)]
           /\ ret' = Ret("ok")
           /\ UNCHANGED <<last_reset, disk, USE_DB, uivars>>
       ELSE
           /\ ret' = Ret("IndexError")
           /\ UNCHANGED <<potvars, disk, lock, pc, loc, USE_DB, uivars>>

\* open_edit_transfer_dialog on a Transfer row of the table as it stands
thr_open_edit_transfer_dialog(c, idx) ==
    /\ pc[c] = "idle" /\ lock = 0
    /\ open_edit_dialog(history, "TRANSFER", idx) = "ok"
    /\ pc' = [pc EXCEPT ![c] = "et_dialog"]
    /\ loc' = [loc EXCEPT ![c] = [NoLoc EXCEPT !.idx = idx, !.t = idx]]
    /\ op' = "edit_selected"
    /\ ret' = Ret("ok")
    /\ UNCHANGED <<potvars, disk, lock, USE_DB, uivars>>

\* open_edit_transfer_dialog.apply_change up to "if amt > avail": update_info
\* takes the lock, reads person_totals and t, and lets the lock go
thr_apply_change_check(c, pay, rawamount) ==
    LET amt == q(rawamount)
        avail == edit_transfer_avail(history, Tval(loc[c]), pay)
    IN  /\ pc[c] = "et_dialog" /\ lock = 0
        /\ op' = "edit_transfer"
        /\ IF amt <= 0 THEN
               /\ ret' = Ret("InvalidAmount")
               /\ UNCHANGED <<pc, loc>>
           ELSE IF amt > avail THEN
               /\ ret' = Ret("InsufficientFunds")
               /\ UNCHANGED <<pc, loc>>
           ELSE
               /\ ret' = Ret("checked")
               /\ pc' = [pc EXCEPT ![c] = "et_checked"]
               /\ loc' = [loc EXCEPT ![c].pay = pay, ![c].amt = amt, ![c].avail = avail]
        /\ UNCHANGED <<potvars, disk, lock, USE_DB, uivars>>

\* the rest of apply_change: the fields of t are written under the lock,
\* taken anew; "Transfer aktualisiert." follows the save
thr_apply_change_write(c) ==
    LET l == loc[c]
        rec == IF l.pay = "Sven" THEN "Sevi" ELSE "Sven"
        new == [Tval(l) EXCEPT !.payer = l.pay, !.receiver = rec,
                               !.transfer_amount = l.amt]
    IN  /\ pc[c] = "et_checked" /\ lock = 0
        /\ lock' = c
        /\ IF l.t > 0 THEN
               /\ history' = ReplaceAt(history, l.t, new)
               /\ UNCHANGED loc
           ELSE
               /\ UNCHANGED history
               /\ loc' = [loc EXCEPT ![c].obj = <<new>>]
        /\ pc' = [pc EXCEPT ![c] = "save"]
        /\ op' = "edit_transfer"
        /\ ret' = Ret("ok")
        /\ UNCHANGED <<balance, last_reset, disk, USE_DB, uivars>>

\* "Abbrechen" in the dialog the thread has open
thr_dialog_close(c) ==
    /\ pc[c] \in {"del_dialog", "et_dialog"} /\ lock = 0
    /\ pc' = [pc EXCEPT ![c] = "idle"]
    /\ loc' = [loc EXCEPT ![c] = NoLoc]
    /\ op' = "dialog_close"
    /\ ret' = Ret("ok")
    /\ UNCHANGED <<potvars, disk, lock, USE_DB, uivars>>

\* handle_upload: the file is parsed with no lock held; the history, the
\* balance and last_reset are replaced under the lock.  The Transaction
\* objects of the old list are in the history no more.
thr_handle_upload(c, file) ==
    /\ pc[c] = "idle" /\ lock = 0
    /\ op' = "import"
    /\ IF file.header = {} THEN
           /\ ret' = Ret("EmptyFile")
           /\ UNCHANGED <<potvars, disk, lock, pc, loc, USE_DB, uivars>>
       ELSE IF {Lower(hname) : hname \in file.header} # RequiredHeader THEN
           /\ ret' = Ret("BadHeader")
           /\ UNCHANGED <<potvars, disk, lock, pc, loc, USE_DB, uivars>>
       ELSE IF \E i \in 1..Len(file.rows) : ~RowOk(file.rows[i]) THEN
           /\ ret' = Ret("MalformedRecord")
           /\ UNCHANGED <<potvars, disk, lock, pc, loc, USE_DB, uivars>>
       ELSE
           /\ Len(file.rows) <= MaxHist
           /\ lock' = c
           /\ history' = [i \in 1..Len(file.rows) |-> ParseRow(file.rows[i])]
           /\ balance' = recalc_balance(history')
           /\ last_reset' = file.last_reset
           /\ pc' = [pc EXCEPT ![c] = "save"]
           /\ loc' = [d \in Threads |-> AfterClear(loc[d])]
           /\ ret' = Ret("ok")
           /\ UNCHANGED <<disk, USE_DB, uivars>>

\* export_csv, its first "with lock:": pot.last_reset is read; the header
\* line is written with no lock held
thr_export_lr(c) ==
    /\ pc[c] = "idle" /\ lock = 0
    /\ pc' = [pc EXCEPT ![c] = "export_rows"]
    /\ loc' = [loc EXCEPT ![c] = [NoLoc EXCEPT !.lr = last_reset]]
    /\ op' = "export_lr"
    /\ ret' = Ret("ok")
    /\ UNCHANGED <<potvars, disk, lock, USE_DB, uivars>>

\* the text export_csv delivers once its second "with lock:" has written the
\* rows of pot.history under the line of the last_reset read before
ExportText(c) == export_csv(history, loc[c].lr)

\* export_csv, its second "with lock:" and the download
thr_export_rows(c) ==
    /\ pc[c] = "export_rows" /\ lock = 0
    /\ pc' = [pc EXCEPT ![c] = "idle"]
    /\ loc' = [loc EXCEPT ![c] = NoLoc]
    /\ op' = "export_csv"
    /\ ret' = Ret("ok")
    /\ UNCHANGED <<potvars, disk, lock, USE_DB, uivars>>

\* dlg_bier_bezahlen.submit: Pot.pay_beer under the lock; a refusal returns
\* out of the "with lock:"
thr_bier_submit(c, rawamount, payer, now) ==
    LET amount == q(rawamount)
        status == pay_beer_check(balance, amount)
    IN  /\ pc[c] = "idle" /\ lock = 0
        /\ op' = "pay_beer"
        /\ ret' = Ret(status)
        /\ IF status # "ok" THEN
               UNCHANGED <<potvars, disk, lock, pc, loc, USE_DB, uivars>>
           ELSE
               /\ Len(history) < MaxHist
               /\ lock' = c
               /\ balance' = q(balance - amount)
               /\ history' = Append(history,
                      Transaction(now, "BEER", "Bier bezahlt", "", -amount, payer, "", 0))
               /\ pc' = [pc EXCEPT ![c] = "save"]
               /\ UNCHANGED <<last_reset, disk, loc, USE_DB, uivars>>

(* The lock step by step.  In the three handlers that follow, reaching a   *)
(* "with lock:" is one step, taking the lock the next, and the body up to  *)
(* the end of the "with" a third: a thread stands at the "with lock:" for  *)
(* as long as another thread holds the lock.  op and ret are those of the  *)
(* handler that returned last.                                             *)

\* the "with lock:" of tr_submit (410), dlg_ausgleich (681) and do_book (693)
AtLock == {"tr_submit", "dlg_ausgleich", "do_book"}

\* inside the body of that "with lock:"
Held(at) == at \o "_held"

\* tr_submit up to its "with lock:": an amount that is not positive returns
\* before it
thr_tr_submit_call(c, rawamount, payer) ==
    LET amt == q(rawamount)
    IN  /\ pc[c] = "idle"
        /\ Len(history) <= MaxHist
        /\ IF amt <= 0 THEN
               /\ op' = "transfer"
               /\ ret' = Ret("InvalidAmount")
               /\ UNCHANGED <<pc, loc>>
           ELSE
               /\ pc' = [pc EXCEPT ![c] = "tr_submit"]
               /\ loc' = [loc EXCEPT ![c] = [NoLoc EXCEPT !.pay = payer, !.amt = amt]]
               /\ UNCHANGED <<op, ret>>
        /\ UNCHANGED <<potvars, disk, lock, USE_DB, uivars>>

\* lock.__enter__: threading.Lock is not reentrant, the thread gets the lock
\* only while no thread holds it, itself included
thr_acquire(c) ==
    /\ pc[c] \in AtLock
    /\ lock = 0
    /\ lock' = c
    /\ pc' = [pc EXCEPT ![c] = Held(pc[c])]
    /\ UNCHANGED <<potvars, disk, op, ret, loc, USE_DB, uivars>>

\* where tr_submit and do_book are when they have not closed their dialog:
\* the transfer dialog is no position of the thread, the dialog of
\* dlg_ausgleich is
Back(at) == IF at = "do_book_held" THEN "aus_dialog" ELSE "idle"

\* the body of the "with lock:" of tr_submit and of do_book with the lock
\* never let go on the "return" of a refusal
thr_transfer_held_keeps_lock(c, now) ==
    LET l == loc[c]
        rec == IF l.pay = "Sven" THEN "Sevi" ELSE "Sven"
        status == transfer_check(history, l.amt, l.pay, rec)
        comment == IF pc[c] = "do_book_held" THEN "Autom. Ausgleich" ELSE "Ausgleich"
    IN  /\ pc[c] \in {"tr_submit_held", "do_book_held"} /\ lock = c
        /\ op' = "transfer"
        /\ ret' = Ret(status)
        /\ IF status # "ok" THEN
               /\ pc' = [pc EXCEPT ![c] = Back(pc[c])]
               /\ loc' = [loc EXCEPT ![c] = IF Back(pc[c]) = "idle" THEN NoLoc ELSE l]
               /\ UNCHANGED <<potvars, disk, lock>>
           ELSE
               /\ lock' = 0
               /\ history' = Append(history,
                      Transaction(now, "TRANSFER", "", comment, 0, l.pay, rec, l.amt))
               /\ disk' = save_state(balance, history', last_reset)
               /\ pc' = [pc EXCEPT ![c] = "idle"]
               /\ loc' = [loc EXCEPT ![c] = NoLoc]
               /\ UNCHANGED <<balance, last_reset>>
        /\ UNCHANGED <<USE_DB, uivars>>

\* the body of the "with lock:" of tr_submit and of do_book: Pot.transfer,
\* a "return" out of the "with" when it refuses, else save_state; the lock is
\* let go where the "with" ends, and on the "return"
thr_transfer_held(c, now) ==
    LET l == loc[c]
        rec == IF l.pay = "Sven" THEN "Sevi" ELSE "Sven"
        status == transfer_check(history, l.amt, l.pay, rec)
        comment == IF pc[c] = "do_book_held" THEN "Autom. Ausgleich" ELSE "Ausgleich"
    IN  /\ pc[c] \in {"tr_submit_held", "do_book_held"} /\ lock = c
        /\ op' = "transfer"
        /\ ret' = Ret(status)
        /\ lock' = 0
        /\ IF status # "ok" THEN
               /\ pc' = [pc EXCEPT ![c] = Back(pc[c])]
               /\ loc' = [loc EXCEPT ![c] = IF Back(pc[c]) = "idle" THEN NoLoc ELSE l]
               /\ UNCHANGED <<potvars, disk>>
           ELSE
               /\ history' = Append(history,
                      Transaction(now, "TRANSFER", "", comment, 0, l.pay, rec, l.amt))
               /\ disk' = save_state(balance, history', last_reset)
               /\ pc' = [pc EXCEPT ![c] = "idle"]
               /\ loc' = [loc EXCEPT ![c] = NoLoc]
               /\ UNCHANGED <<balance, last_reset>>
        /\ UNCHANGED <<USE_DB, uivars>>

\* the same body with a save_state that raises: the exception leaves the
\* "with", which lets the lock go; tr_submit catches it, do_book does not,
\* and neither closes its dialog
thr_transfer_held_save_fails(c, now, d) ==
    LET l == loc[c]
        rec == IF l.pay = "Sven" THEN "Sevi" ELSE "Sven"
        comment == IF pc[c] = "do_book_held" THEN "Autom. Ausgleich" ELSE "Ausgleich"
    IN  /\ pc[c] \in {"tr_submit_held", "do_book_held"} /\ lock = c
        /\ transfer_check(history, l.amt, l.pay, rec) = "ok"
        /\ op' = "transfer"
        /\ ret' = Ret(IF pc[c] = "do_book_held" THEN "UncaughtException"
                      ELSE "InvalidInput")
        /\ lock' = 0
        /\ history' = Append(history,
               Transaction(now, "TRANSFER", "", comment, 0, l.pay, rec, l.amt))
        /\ disk' = d
        /\ pc' = [pc EXCEPT ![c] = Back(pc[c])]
        /\ loc' = [loc EXCEPT ![c] = IF Back(pc[c]) = "idle" THEN NoLoc ELSE l]
        /\ UNCHANGED <<balance, last_reset, USE_DB, uivars>>

\* dlg_ausgleich up to its "with lock:"
thr_dlg_ausgleich_call(c) ==
    /\ pc[c] = "idle"
    /\ pc' = [pc EXCEPT ![c] = "dlg_ausgleich"]
    /\ UNCHANGED <<potvars, disk, op, ret, lock, loc, USE_DB, uivars>>

Min(a, b) == IF a <= b THEN a ELSE b

\* the body of the "with lock:" of dlg_ausgleich: the proposal from
\* person_totals, or a "return" out of the "with" when nobody is below zero;
\* the dialog is built once the lock is let go
thr_dlg_ausgleich_held(c) ==
    LET sven == person_totals(history)[1]
        sevi == person_totals(history)[2]
    IN  /\ pc[c] = "dlg_ausgleich_held" /\ lock = c
        /\ op' = "dlg_ausgleich"
        /\ lock' = 0
        /\ IF sven < 0 /\ sevi > 0 THEN
               /\ ret' = Ret("ok")
               /\ pc' = [pc EXCEPT ![c] = "aus_dialog"]
               /\ loc' = [loc EXCEPT ![c] = [NoLoc EXCEPT !.pay = "Sevi",
                                                           !.amt = Min(sevi, -sven)]]
           ELSE IF sevi < 0 /\ sven > 0 THEN
               /\ ret' = Ret("ok")
               /\ pc' = [pc EXCEPT ![c] = "aus_dialog"]
               /\ loc' = [loc EXCEPT ![c] = [NoLoc EXCEPT !.pay = "Sven",
                                                           !.amt = Min(sven, -sevi)]]
           ELSE
               /\ ret' = Ret("NoSettlement")
               /\ pc' = [pc EXCEPT ![c] = "idle"]
               /\ UNCHANGED loc
        /\ UNCHANGED <<potvars, disk, USE_DB, uivars>>

\* "Buchen" in the dialog of dlg_ausgleich: do_book up to its "with lock:"
thr_do_book_call(c) ==
    /\ pc[c] = "aus_dialog"
    /\ Len(history) <= MaxHist
    /\ pc' = [pc EXCEPT ![c] = "do_book"]
    /\ UNCHANGED <<potvars, disk, op, ret, lock, loc, USE_DB, uivars>>

\* "Abbrechen" in the dialog of dlg_ausgleich
thr_ausgleich_close(c) ==
    /\ pc[c] = "aus_dialog"
    /\ pc' = [pc EXCEPT ![c] = "idle"]
    /\ loc' = [loc EXCEPT ![c] = NoLoc]
    /\ UNCHANGED <<potvars, disk, op, ret, lock, USE_DB, uivars>>

----------------------------------------------------------------------------

\* a ledger handler leaves the backend switch and the client's selection and
\* open dialog as they are
Ledger(A) == A /\ UNCHANGED <<USE_DB, uivars, thrvars>>

Next ==
    \/ \E sr \in BOOLEAN, vr \in BOOLEAN, c \in Comments, a \in Stakes, now \in Times :
           Ledger(add_bet(sr, vr, c, a, now))
    \/ \E a \in Amounts, p \in Participants, c \in Comments, now \in Times :
           Ledger(pay_beer(a, p, c, now))
    \/ \E a \in Amounts, p \in Participants, r \in Participants, now \in Times :
           Ledger(transfer(a, p, r, "Ausgleich", now))
    \/ \E now \in Times : Ledger(reset(now))
    \/ Ledger(tr_update_info)
    \/ Ledger(refresh_top)
    \/ \E idx \in 1..Len(history), vs \in BOOLEAN, vv \in BOOLEAN, a \in Stakes, c \in Comments :
           Ledger(edit_bet_apply_change(idx, vs, vv, a, c))
    \/ \E idx \in 1..Len(history), p \in Participants, a \in Amounts, c \in Comments :
           Ledger(edit_beer_apply_change(idx, p, a, c))
    \/ \E idx \in 1..Len(history), p \in Participants, a \in Amounts, c \in Comments :
           Ledger(edit_transfer_apply_change(idx, p, a, c))
    \/ \E idx \in 1..Len(history) : Ledger(confirm_delete(idx))
    \/ \E file \in ImportFiles : Ledger(handle_upload(file))
    \/ Ledger(load_state)

Spec == Init /\ [][Next]_vars

\* the ledger operations alone: recording, editing a bet or a purchase (to any
\* of EditAmounts), deleting and resetting, from the empty ledger
NextPot ==
    \/ \E sr \in BOOLEAN, vr \in BOOLEAN, c \in Comments, a \in Stakes, now \in Times :
           Ledger(add_bet(sr, vr, c, a, now))
    \/ \E a \in Amounts, p \in Participants, c \in Comments, now \in Times :
           Ledger(pay_beer(a, p, c, now))
    \/ \E a \in Amounts, p \in Participants, r \in Participants, now \in Times :
           Ledger(transfer(a, p, r, "Ausgleich", now))
    \/ \E now \in Times : Ledger(reset(now))
    \/ \E idx \in 1..Len(history), vs \in BOOLEAN, vv \in BOOLEAN, a \in Stakes, c \in Comments :
           Ledger(edit_bet_apply_change(idx, vs, vv, a, c))
    \/ \E idx \in 1..Len(history), p \in Participants, a \in EditAmounts, c \in Comments :
           Ledger(edit_beer_apply_change(idx, p, a, c))
    \/ \E idx \in 1..Len(history) : Ledger(confirm_delete(idx))

SpecPot == Init /\ [][NextPot]_vars

\* recording, editing an entry of any kind, deleting and resetting, from the
\* empty ledger: no import, no load
NextOps ==
    \/ \E sr \in BOOLEAN, vr \in BOOLEAN, c \in Comments, a \in Stakes, now \in Times :
           Ledger(add_bet(sr, vr, c, a, now))
    \/ \E a \in Amounts, p \in Participants, c \in Comments, now \in Times :
           Ledger(pay_beer(a, p, c, now))
    \/ \E a \in Amounts, p \in Participants, r \in Participants, now \in Times :
           Ledger(transfer(a, p, r, "Ausgleich", now))
    \/ \E now \in Times : Ledger(reset(now))
    \/ \E idx \in 1..Len(history), vs \in BOOLEAN, vv \in BOOLEAN, a \in Stakes, c \in Comments :
           Ledger(edit_bet_apply_change(idx, vs, vv, a, c))
    \/ \E idx \in 1..Len(history), p \in Participants, a \in EditAmounts, c \in Comments :
           Ledger(edit_beer_apply_change(idx, p, a, c))
    \/ \E idx \in 1..Len(history), p \in Participants, a \in Amounts, c \in Comments :
           Ledger(edit_transfer_apply_change(idx, p, a, c))
    \/ \E idx \in 1..Len(history) : Ledger(confirm_delete(idx))

SpecOps == Init /\ [][NextOps]_vars

\* one client's table and delete dialog, beside recording, deleting and
\* resetting by any client
NextUI ==
    \/ \E sr \in BOOLEAN, vr \in BOOLEAN, c \in Comments, a \in Stakes, now \in Times :
           Ledger(add_bet(sr, vr, c, a, now))
    \/ \E a \in Amounts, p \in Participants, c \in Comments, now \in Times :
           Ledger(pay_beer(a, p, c, now))
    \/ \E now \in Times : Ledger(reset(now))
    \/ \E idx \in 1..Len(history) : Ledger(confirm_delete(idx))
    \/ \E idx \in 1..Len(history) : select_row(idx)
    \/ edit_selected
    \/ delete_selected
    \/ confirm_delete_click
    \/ dialog_close

SpecUI == Init /\ [][NextUI]_vars

\* comments typed or pasted into the comment field: the second holds a form
\* feed, which a single-line text field lets through
CsvComments == {" x ", "a\fb"}

\* recording and resetting, and the upload of what export_csv has just
\* delivered
NextCsv ==
    \/ \E sr \in BOOLEAN, vr \in BOOLEAN, c \in CsvComments, a \in Stakes, now \in Times :
           Ledger(add_bet(sr, vr, c, a, now))
    \/ \E a \in Amounts, p \in Participants, c \in CsvComments, now \in Times :
           Ledger(pay_beer(a, p, c, now))
    \/ \E a \in Amounts, p \in Participants, r \in Participants, now \in Times :
           Ledger(transfer(a, p, r, "Ausgleich", now))
    \/ \E now \in Times : Ledger(reset(now))
    \/ Ledger(handle_upload_text(export_csv(history, last_reset)))

SpecCsv == Init /\ [][NextCsv]_vars

\* the relational backend: DATABASE_URL is set
InitDb ==
    /\ balance = 0
    /\ history = <<>>
    /\ last_reset = <<>>
    /\ disk = <<>>
    /\ op = "init"
    /\ ret = Ret("ok")
    /\ USE_DB = TRUE
    /\ selected = <<>>
    /\ dialog = <<>>
    /\ lock = 0
    /\ pc = [c \in Threads |-> "idle"]
    /\ loc = [c \in Threads |-> NoLoc]
    /\ during = [c \in Threads |-> {}]

RowAt(t, r) == [r EXCEPT !.timestamp = Ts(t)]

\* uploads whose rows are and are not in the order of their timestamps
DbImportFiles ==
    { CsvFile(<<>>, RequiredHeader, <<RowAt(2, RowBetSven), RowBeerSevi>>),
      CsvFile(<<1>>, RequiredHeader, <<RowBetSven, RowAt(2, RowBeerSevi)>>) }

NextDb ==
    \/ \E sr \in BOOLEAN, vr \in BOOLEAN, c \in Comments, a \in Stakes, now \in Times :
           Ledger(add_bet(sr, vr, c, a, now))
    \/ \E a \in Amounts, p \in Participants, c \in Comments, now \in Times :
           Ledger(pay_beer(a, p, c, now))
    \/ \E now \in Times : Ledger(reset(now))
    \/ \E idx \in 1..Len(history) : Ledger(confirm_delete(idx))
    \/ \E file \in DbImportFiles : Ledger(handle_upload(file))
    \/ Ledger(load_state)

SpecDb == InitDb /\ [][NextDb]_vars

ExtBet == Transaction(1, "BET", "Sven verliert", "ext", STAKE, "", "", 0)
ExtBeer == Transaction(1, "BEER", "Bier bezahlt", "ext", -2000, "Sevi", "", 0)

\* a restored backup, a document whose balance was changed by hand, one with
\* a record of an unknown kind, and a file that cannot be read
BackupDoc == to_data(STAKE, <<ExtBet>>, <<>>)
TamperedDoc == [to_data(3000, <<ExtBet, ExtBeer>>, <<1>>) EXCEPT !.balance = DecStr(99000)]
MalformedDoc ==
    to_data(7000, <<ExtBet, [ExtBeer EXCEPT !.kind = "WETTE"]>>, <<1>>)
ExtDocs == {BackupDoc, TamperedDoc, MalformedDoc, Unreadable}

\* the process runs: its last start did not end in an exception
Alive == ~(op = "load" /\ ret.status = "UncaughtException")

\* the file backend with the file changed from outside, restarts, and the
\* handlers of a running process
NextExt ==
    \/ \E doc \in ExtDocs : external_edit(doc)
    \/ Ledger(load_state)
    \/ \E sr \in BOOLEAN, vr \in BOOLEAN, c \in Comments, a \in Stakes, now \in Times :
           Alive /\ Ledger(add_bet(sr, vr, c, a, now))
    \/ \E a \in Amounts, p \in Participants, c \in Comments, now \in Times :
           Alive /\ Ledger(pay_beer(a, p, c, now))
    \/ \E now \in Times : Alive /\ Ledger(reset(now))
    \/ \E idx \in 1..Len(history), vs \in BOOLEAN, vv \in BOOLEAN, a \in Stakes, c \in {"ext"} :
           Alive /\ Ledger(edit_bet_apply_change(idx, vs, vv, a, c))
    \/ Alive /\ Ledger(handle_upload_text(export_csv(history, last_reset)))

SpecExt == Init /\ [][NextExt]_vars

\* recording, deleting and resetting with a save_state that may raise
NextFail ==
    \/ \E sr \in BOOLEAN, vr \in BOOLEAN, c \in Comments, a \in Stakes, now \in Times :
           Ledger(add_bet(sr, vr, c, a, now))
    \/ \E a \in Amounts, p \in Participants, c \in Comments, now \in Times :
           Ledger(pay_beer(a, p, c, now))
    \/ \E a \in Amounts, p \in Participants, r \in Participants, now \in Times :
           Ledger(transfer(a, p, r, "Ausgleich", now))
    \/ \E now \in Times : Ledger(reset(now))
    \/ \E idx \in 1..Len(history) : Ledger(confirm_delete(idx))
    \/ Ledger(tr_submit_unparsable)
    \/ \E a \in Amounts, p \in Participants, r \in Participants, now \in Times, d \in FailedDisk(disk) :
           Ledger(transfer_save_fails(a, p, r, "Ausgleich", now, d))
    \/ \E a \in Amounts, p \in Participants, c \in Comments, now \in Times, d \in FailedDisk(disk) :
           Ledger(pay_beer_save_fails(a, p, c, now, d))
    \/ \E idx \in 1..Len(history), d \in FailedDisk(disk) :
           Ledger(confirm_delete_save_fails(idx, d))

SpecFail == Init /\ [][NextFail]_vars

LockAmounts == {2000, STAKE}

\* a step of a thread while no thread runs export_csv
NoExport(A) == A /\ UNCHANGED during

\* two threads running the handlers that take the lock more than once, and
\* recording and resetting beside them
NextLock ==
    \/ \E c \in Threads, sr \in BOOLEAN, now \in Times : NoExport(thr_submit(c, sr, TRUE, now))
    \/ \E c \in Threads : NoExport(thr_save_state(c))
    \/ \E c \in Threads, now \in Times : NoExport(thr_yes(c, now))
    \/ \E c \in Threads, a \in LockAmounts, p \in Participants, now \in Times :
           NoExport(thr_tr_submit(c, a, p, now))
    \/ \E c \in Threads, idx \in 1..Len(history) : NoExport(thr_delete_selected(c, idx))
    \/ \E c \in Threads : NoExport(thr_confirm_delete(c))
    \/ \E c \in Threads, idx \in 1..Len(history) : NoExport(thr_open_edit_transfer_dialog(c, idx))
    \/ \E c \in Threads, p \in Participants, a \in LockAmounts :
           NoExport(thr_apply_change_check(c, p, a))
    \/ \E c \in Threads : NoExport(thr_apply_change_write(c))
    \/ \E c \in Threads : NoExport(thr_dialog_close(c))

SpecLock == Init /\ [][NextLock]_vars

\* the files uploaded beside an export: one with a last_reset line and one
\* without, and one that is refused for its header
ExportImportFiles ==
    { CsvFile(<<>>, RequiredHeader, <<RowBetBoth>>),
      CsvFile(<<1>>, RequiredHeader, <<RowBetSven, RowBeerSevi>>),
      CsvFile(<<1>>, RequiredHeader \ {"comment"}, <<RowBetSven>>) }

\* a step of a thread beside the exports: the ledger state it leaves is one
\* there has been during every export under way, and so is the state in the
\* middle of a holding that assigns both the history and last_reset (the
\* history is assigned first, in Pot.reset and in handle_upload)
Exporting(A) ==
    /\ A
    /\ during' = [c \in Threads |->
                     IF pc'[c] = "export_rows"
                     THEN during[c] \cup
                          {h \in {history'} :
                               loc'[c].lr \in {last_reset, last_reset'}}
                     ELSE {}]

\* two threads exporting, recording, resetting and importing
NextExport ==
    \/ \E c \in Threads, sr \in BOOLEAN, now \in Times :
           Exporting(thr_submit(c, sr, TRUE, now))
    \/ \E c \in Threads : Exporting(thr_save_state(c))
    \/ \E c \in Threads, now \in Times : Exporting(thr_yes(c, now))
    \/ \E c \in Threads, file \in ExportImportFiles : Exporting(thr_handle_upload(c, file))
    \/ \E c \in Threads : Exporting(thr_export_lr(c))
    \/ \E c \in Threads : Exporting(thr_export_rows(c))

SpecExport == Init /\ [][NextExport]_vars

\* what a thread does while it holds the lock
HeldStep(c) ==
    \/ NoExport(thr_save_state(c))
    \/ \E now \in Times : NoExport(thr_transfer_held(c, now))
    \/ NoExport(thr_dlg_ausgleich_held(c))

\* two threads transferring and settling, and recording, buying and resetting
\* beside them
NextLive ==
    \/ \E c \in Threads, now \in Times : NoExport(thr_submit(c, FALSE, TRUE, now))
    \/ \E c \in Threads, p \in Participants, now \in Times :
           NoExport(thr_bier_submit(c, STAKE, p, now))
    \/ \E c \in Threads, now \in Times : NoExport(thr_yes(c, now))
    \/ \E c \in Threads, a \in {0, STAKE}, p \in Participants :
           NoExport(thr_tr_submit_call(c, a, p))
    \/ \E c \in Threads : NoExport(thr_acquire(c))
    \/ \E c \in Threads, now \in Times :
           NoExport(thr_transfer_held_save_fails(c, now, disk))
    \/ \E c \in Threads : NoExport(thr_dlg_ausgleich_call(c))
    \/ \E c \in Threads : NoExport(thr_do_book_call(c))
    \/ \E c \in Threads : NoExport(thr_ausgleich_close(c))
    \/ \E c \in Threads : HeldStep(c)

\* fair scheduling: a thread that holds the lock goes on running, and a
\* thread at a "with lock:" gets the lock if the lock is free again and again
SpecLive ==
    /\ Init /\ [][NextLive]_vars
    /\ \A c \in Threads : WF_vars(HeldStep(c)) /\ SF_vars(NoExport(thr_acquire(c)))

\* the same with a lock that may pass a waiting thread by every time
SpecLiveWeak ==
    /\ Init /\ [][NextLive]_vars
    /\ \A c \in Threads : WF_vars(HeldStep(c)) /\ WF_vars(NoExport(thr_acquire(c)))

----------------------------------------------------------------------------
(* Properties *)

\* the sum of f over the indices in S
RECURSIVE SumOver(_, _)
SumOver(S, f) ==
    IF S = {} THEN 0
    ELSE LET i == CHOOSE j \in S : TRUE IN f[i] + SumOver(S \ {i}, f)

\* the sum of delta over the Bet and Purchase entries of h
BetPurchaseSum(h) ==
    SumOver({i \in 1..Len(h) : h[i].kind # "TRANSFER"}, [i \in 1..Len(h) |-> h[i].delta])

\* C1: whenever the lock is free, the cached balance is the sum of delta over
\* the Bet and Purchase entries of the history, transfers excluded.
C1_BalanceIsSum == balance = BetPurchaseSum(history)

\* a transfer was recorded beside a bet, and the pot is not empty
C1_Witness ==
    /\ op = "transfer" /\ ret.status = "ok"
    /\ \E i \in 1..Len(history) : history[i].kind = "BET"
    /\ balance > 0

\* C2: the pot never goes negative.
C2_BalanceNeverNegative == balance >= 0

\* C3: record_purchase is refused with InsufficientFunds whenever the quantized
\* amount exceeds the balance, leaving the ledger as it was; with
\* 0 < amount <= balance it appends one Purchase with delta = -amount and the
\* given payer, and the balance drops by the amount.
C3_PurchaseFundsRule ==
    [][\A a \in Amounts, p \in Participants, c \in Comments, now \in Times :
          pay_beer(a, p, c, now) =>
              /\ q(a) > balance =>
                     ret'.status = "InsufficientFunds" /\ UNCHANGED potvars
              /\ (0 < q(a) /\ q(a) <= balance) =>
                     /\ ret'.status = "ok"
                     /\ Len(history') = Len(history) + 1
                     /\ SubSeq(history', 1, Len(history)) = history
                     /\ history'[Len(history')].kind = "BEER"
                     /\ history'[Len(history')].delta = -q(a)
                     /\ history'[Len(history')].payer = p
                     /\ balance' = balance - q(a)
                     /\ UNCHANGED last_reset]_vars

\* a participant's person total over h
PayerTotal(h, p) == person_totals(h)[IF p = "Sven" THEN 1 ELSE 2]

\* the raw amount rounds to a quantized amount <= 0: it is below half a cent
RoundsToNonPositive(a) == 2 * a < CENT

LastOf(h) == h[Len(h)]
AppendedOne(h, h2) == Len(h2) = Len(h) + 1 /\ SubSeq(h2, 1, Len(h)) = h

\* C4 as stated: record_transfer with the payer one of the two participants is
\* refused with InsufficientFunds whenever the amount exceeds the payer's
\* person total of the history before, and history and balance stay as they were.
C4_TransferFundsRule ==
    [][\A a \in Amounts, p \in Participants, r \in Participants, now \in Times :
          (transfer(a, p, r, "Ausgleich", now) /\ q(a) > PayerTotal(history, p)) =>
              ret'.status = "InsufficientFunds" /\ UNCHANGED <<history, balance>>]_vars

\* C4 amended: the same, for a positive amount and a receiver other than the
\* payer (a non-positive amount is InvalidAmount and payer = receiver is
\* SameParty before the funds are looked at).
C4_TransferFundsRuleAmended ==
    [][\A a \in Amounts, p \in Participants, r \in Participants, now \in Times :
          (/\ transfer(a, p, r, "Ausgleich", now)
           /\ ~RoundsToNonPositive(a) /\ p # r
           /\ q(a) > PayerTotal(history, p)) =>
              ret'.status = "InsufficientFunds" /\ UNCHANGED <<history, balance>>]_vars

\* a transfer was refused for lack of funds although the pot holds money
C4_Witness ==
    op = "transfer" /\ ret.status = "InsufficientFunds" /\ balance > 0

\* C5: a successful record_transfer appends a Transfer with delta = 0 and
\* transfer_amount = amount, leaves the balance alone, lowers the payer's person
\* total by exactly the amount, raises the receiver's by exactly the amount, and
\* the payer's person total is still >= 0.
C5_TransferEffect ==
    [][\A a \in Amounts, p \in Participants, r \in Participants, now \in Times :
          (transfer(a, p, r, "Ausgleich", now) /\ ret'.status = "ok") =>
              /\ AppendedOne(history, history')
              /\ LastOf(history').kind = "TRANSFER"
              /\ LastOf(history').delta = 0
              /\ LastOf(history').transfer_amount = q(a)
              /\ LastOf(history').payer = p /\ LastOf(history').receiver = r
              /\ balance' = balance
              /\ PayerTotal(history', p) = PayerTotal(history, p) - q(a)
              /\ PayerTotal(history', r) = PayerTotal(history, r) + q(a)
              /\ PayerTotal(history', p) >= 0]_vars

\* a transfer went through after a purchase or a bet of the payer
C5_Witness ==
    /\ op = "transfer" /\ ret.status = "ok"
    /\ Len(history) = 2 /\ history[2].kind = "TRANSFER"
    /\ PayerTotal(history, history[2].receiver) = history[2].transfer_amount

\* the losers text record_bet is to write
ExpectedLosers(sven_right, sevi_right) ==
    IF ~sven_right /\ ~sevi_right THEN "Sven verliert, Sevi verliert"
    ELSE IF ~sven_right THEN "Sven verliert"
    ELSE IF ~sevi_right THEN "Sevi verliert"
    ELSE "beide richtig"

NumWrong(sven_right, sevi_right) ==
    Cardinality({b \in {<<1, sven_right>>, <<2, sevi_right>>} : ~b[2]})

\* C6: record_bet with a positive stake appends exactly one Bet whose delta is
\* the stake times the number of wrong participants (0 with "beide richtig"
\* when both are right), whose losers text names exactly the wrong ones, and
\* the balance grows by that delta.
C6_BetEffect ==
    [][\A sr \in BOOLEAN, vr \in BOOLEAN, c \in Comments, a \in Stakes, now \in Times :
          (add_bet(sr, vr, c, a, now) /\ ~RoundsToNonPositive(a)) =>
              /\ ret'.status = "ok"
              /\ AppendedOne(history, history')
              /\ LastOf(history').kind = "BET"
              /\ LastOf(history').delta = NumWrong(sr, vr) * q(a)
              /\ LastOf(history').losers = ExpectedLosers(sr, vr)
              /\ balance' = balance + NumWrong(sr, vr) * q(a)
              /\ UNCHANGED last_reset]_vars

\* a bet lost by both was followed by a bet both won: the second is recorded
\* with a zero deposit
C6_Witness ==
    /\ op = "add_bet" /\ ret.status = "ok" /\ Len(history) = 2
    /\ history[1].kind = "BET" /\ history[1].delta = 2 * STAKE
    /\ history[2].kind = "BET" /\ history[2].delta = 0
    /\ history[2].losers = "beide richtig"
    /\ balance = 2 * STAKE

\* C7: record_bet, record_purchase and record_transfer are refused with
\* InvalidAmount when the quantized stake or amount is <= 0, and history,
\* balance and last_reset stay as they were; for record_transfer this comes
\* before SameParty and InsufficientFunds.
C7_InvalidAmount ==
    [][/\ \A sr \in BOOLEAN, vr \in BOOLEAN, c \in Comments, a \in Stakes, now \in Times :
              (add_bet(sr, vr, c, a, now) /\ RoundsToNonPositive(a)) =>
                  ret'.status = "InvalidAmount" /\ UNCHANGED potvars
       /\ \A a \in Amounts, p \in Participants, c \in Comments, now \in Times :
              (pay_beer(a, p, c, now) /\ RoundsToNonPositive(a)) =>
                  ret'.status = "InvalidAmount" /\ UNCHANGED potvars
       /\ \A a \in Amounts, p \in Participants, r \in Participants, now \in Times :
              (transfer(a, p, r, "Ausgleich", now) /\ RoundsToNonPositive(a)) =>
                  ret'.status = "InvalidAmount" /\ UNCHANGED potvars]_vars

\* a transfer was refused for its amount in a ledger that holds entries
C7_Witness ==
    op = "transfer" /\ ret.status = "InvalidAmount" /\ Len(history) > 0

\* C8: record_transfer with a positive amount and payer = receiver is refused
\* with SameParty whatever the payer has available; history and balance stay.
C8_SameParty ==
    [][\A a \in Amounts, p \in Participants, now \in Times :
          (transfer(a, p, p, "Ausgleich", now) /\ ~RoundsToNonPositive(a)) =>
              ret'.status = "SameParty" /\ UNCHANGED <<history, balance>>]_vars

\* refused as SameParty while each participant could have paid any amount
C8_Witness ==
    /\ op = "transfer" /\ ret.status = "SameParty"
    /\ \A p \in Participants, a \in Amounts : PayerTotal(history, p) >= q(a)

\* delta / 2 to the nearest cent, ties upwards (delta >= 0)
RefHalf(delta) == ((delta + CENT) \div (2 * CENT)) * CENT

\* the participants a Bet marks as losers
RefLosers(t) == {p \in Participants : Contains(t.losers, p \o " verliert")}

\* what one entry contributes to the total of participant p
RefContribution(p, t) ==
    IF t.kind = "BET" THEN
        IF t.delta > 0 /\ p \in RefLosers(t)
        THEN (IF Cardinality(RefLosers(t)) = 2 THEN RefHalf(t.delta) ELSE t.delta)
        ELSE 0
    ELSE IF t.kind = "BEER" THEN
        IF t.payer = p /\ t.delta < 0 THEN t.delta ELSE 0
    ELSE (IF t.receiver = p THEN t.transfer_amount ELSE 0)
         - (IF t.payer = p THEN t.transfer_amount ELSE 0)

RefTotal(p, h) == SumOver(1..Len(h), [i \in 1..Len(h) |-> RefContribution(p, h[i])])

\* C9: what person_totals() returns is the reference fold over the history,
\* each result a whole number of cents.
C9_TotalsAreReferenceFold ==
    op \in {"person_totals", "refresh_top"} =>
        /\ ret.totals = <<RefTotal("Sven", history), RefTotal("Sevi", history)>>
        /\ ret.totals[1] % CENT = 0 /\ ret.totals[2] % CENT = 0

\* the totals were asked for over a bet both lost and a purchase
C9_Witness ==
    /\ op = "person_totals" /\ Len(history) = 2
    /\ \E i \in 1..2 : history[i].kind = "BET" /\ Cardinality(RefLosers(history[i])) = 2
    /\ \E i \in 1..2 : history[i].kind = "BEER"

Queries == {"person_totals", "refresh_top"}

C11_EditPurchaseRevalidated ==
    [][\A idx \in 1..Len(history), p \in Participants, a \in EditAmounts, c \in Comments :
          (/\ edit_beer_apply_change(idx, p, a, c)
           /\ ~RoundsToNonPositive(a)
           /\ q(a) > balance - history[idx].delta) =>
              ret'.status = "InsufficientFunds" /\ UNCHANGED <<history, balance>>]_vars

\* C12: an edit request whose index is out of range of the history when it
\* is handled fails with NotFound, one whose dialog kind differs from the kind
\* of the stored entry fails with WrongKind; no fault escapes the handler, and
\* history and balance stay as they were.
C12_EditNotFoundWrongKind ==
    [][(edit_selected /\ selected # <<>>) =>
          /\ selected[1] \notin 1..Len(history) => ret'.status = "NotFound"
          /\ ret'.status # "IndexError"
          /\ \A k \in Kind, idx \in 1..Len(history) :
                 history[idx].kind # k => open_edit_dialog(history, k, idx) = "WrongKind"
          /\ UNCHANGED <<history, balance>>]_vars

\* C13: delete_transaction(index) with the index in range removes exactly the
\* entry at that index, keeps the others in their order and sets the balance to
\* the recomputation over what remains; with an index out of range when the
\* removal is executed it fails with NotFound and changes nothing.
C13_DeleteRemovesOrNotFound ==
    [][confirm_delete_click =>
          IF dialog[1] \in 1..Len(history) THEN
              /\ ret'.status = "ok"
              /\ Len(history') = Len(history) - 1
              /\ \A i \in 1..Len(history') :
                     history'[i] = history[IF i < dialog[1] THEN i ELSE i + 1]
              /\ balance' = BetPurchaseSum(history')
              /\ UNCHANGED last_reset
          ELSE
              ret'.status = "NotFound" /\ UNCHANGED potvars]_vars

\* the operations that record a new entry
Recording == {"add_bet", "pay_beer", "transfer"}

C15_CsvRoundTrip ==
    [][handle_upload_text(export_csv(history, last_reset)) =>
          /\ ret'.status = "ok"
          /\ history' = history
          /\ last_reset' = last_reset
          /\ balance' = BetPurchaseSum(history')]_vars

\* the header of the file is not the eight required names, compared without
\* regard to case
HeaderDiffers(file) ==
    {Lower(n) : n \in file.header} # {CsvHeader[j] : j \in 1..Len(CsvHeader)}

\* the row has a bad decimal, a bad timestamp or an unknown kind
BadRow(r) ==
    \/ ~r.delta.ok \/ ~r.transfer_amount.ok
    \/ ~r.timestamp.ok
    \/ r.kind \notin {"BET", "BEER", "TRANSFER"}

\* C16: a CSV import that fails leaves history, balance and last_reset (and
\* the persisted copy) exactly as they were, and it does fail when the file is
\* empty, when the header differs or when any row is bad: no prefix of the rows
\* is committed.
C16_FailedImportChangesNothing ==
    [][\A file \in ImportFiles :
          handle_upload(file) =>
              /\ ret'.status # "ok" => UNCHANGED <<potvars, disk>>
              /\ (\/ file.header = {}
                  \/ HeaderDiffers(file)
                  \/ \E i \in 1..Len(file.rows) : BadRow(file.rows[i])) =>
                     ret'.status # "ok"]_vars

\* an import was refused for a bad row while the ledger holds entries
C16_Witness ==
    /\ op = "import" /\ ret.status = "MalformedRecord"
    /\ Len(history) = MaxHist /\ balance > 0 /\ last_reset = <<>>

\* C17: after a save followed by a load the ledger in memory has the same
\* entries in the same insertion order (also when they are not in the order of
\* their timestamps), the same last_reset and the same balance as before the
\* save; for the file backend and for the relational backend alike.
C17_SaveLoadRoundTrip ==
    [][(load_state /\ disk = save_state(balance, history, last_reset)) =>
          UNCHANGED potvars]_vars

\* the ledger a persisted state stands for: what a load makes of it (no
\* ledger when the load fails)
Loaded(d) ==
    IF d = <<>> THEN <<<<>>, <<>>, 0>>
    ELSE IF USE_DB THEN
        <<db_load_history(d[1]), d[1].meta, recalc_balance(db_load_history(d[1]))>>
    ELSE IF IsUnreadable(d[1]) \/ Malformed(d[1]) THEN <<>>
    ELSE <<from_data_history(d[1]), d[1].last_reset, recalc_balance(from_data_history(d[1]))>>

\* the stored balance of the document agrees with its stored history
Consistent(doc) ==
    ParseDec(doc.balance) = BetPurchaseSum(from_data_history(doc))

\* C18: save(load()) is a fixed point: a save right after a load, with no
\* mutation in between, leaves a persisted state that stands for the same
\* ledger as the one that was loaded, and the very same document when the
\* stored balance agreed with the stored history.
C18_SaveAfterLoadFixedPoint ==
    [][(/\ op = "load" /\ ret.status = "ok"
        /\ Loaded(disk) = <<history, last_reset, balance>>
        /\ op' # "load" /\ UNCHANGED potvars) =>
          /\ Loaded(disk') = Loaded(disk)
          /\ (~USE_DB /\ disk # <<>> /\ Consistent(disk[1])) => disk' = disk]_vars

\* the document with the changed balance was loaded and saved again by an
\* upload of the export: the entries are the same, the balance is the
\* recomputed one
C18_Witness ==
    /\ op = "import" /\ ret.status = "ok"
    /\ disk # <<>> /\ ~IsUnreadable(disk[1])
    /\ disk[1].history = TamperedDoc.history
    /\ disk[1].last_reset = TamperedDoc.last_reset
    /\ disk[1].balance = DecStr(3000)

\* C19: on load the balance is the recomputation over the loaded history for
\* every persisted state, also one whose stored balance disagrees with its
\* stored history.
C19_LoadRecomputesBalance ==
    [][(load_state /\ ret'.status = "ok") =>
          /\ balance' = BetPurchaseSum(history')
          /\ disk # <<>> =>
                 /\ Len(history') = Len(disk[1].history)
                 /\ \A i \in 1..Len(history') :
                        history'[i].delta = ParseDec(disk[1].history[i].delta)]_vars

\* the document with the changed balance has just been loaded
C19_Witness ==
    /\ op = "load" /\ ret.status = "ok" /\ disk = <<TamperedDoc>>
    /\ ParseDec(disk[1].balance) # balance /\ Len(history) = 2

\* C20: a load that fails (the file cannot be read, or a record is malformed)
\* does not end the process and leaves an empty ledger: no entry, balance 0,
\* no last_reset, nothing of the failed document applied.
C20_FailedLoadStartsEmpty ==
    [][(load_state /\ disk # <<>> /\ (IsUnreadable(disk[1]) \/ Malformed(disk[1]))) =>
          /\ ret'.status # "UncaughtException"
          /\ history' = <<>> /\ balance' = 0 /\ last_reset' = <<>>]_vars

\* the outcomes with which a handler refuses its input
ValidationFailures ==
    {"InvalidAmount", "InsufficientFunds", "SameParty", "NotFound", "WrongKind",
     "InvalidInput"}

\* a handler changed the ledger and its save_state raised
SaveFailed ==
    \/ \E a \in Amounts, p \in Participants, r \in Participants, now \in Times, d \in FailedDisk(disk) :
           transfer_save_fails(a, p, r, "Ausgleich", now, d)
    \/ \E a \in Amounts, p \in Participants, c \in Comments, now \in Times, d \in FailedDisk(disk) :
           pay_beer_save_fails(a, p, c, now, d)
    \/ \E idx \in 1..Len(history), d \in FailedDisk(disk) :
           confirm_delete_save_fails(idx, d)

\* C21: when save_state fails after the mutation in memory succeeded, the
\* caller gets a failure outcome that is none of the validation failure
\* outcomes, the lock is free again and the ledger in memory keeps the
\* mutation.
C21_SaveFailureDistinct ==
    [][SaveFailed =>
          /\ ret'.status \notin ValidationFailures \cup {"ok"}
          /\ lock' = 0
          /\ history' # history]_vars

\* the part of C21 that holds: the lock is free and the mutation is kept
C21_LockFreeMutationKept ==
    [][SaveFailed => lock' = 0 /\ history' # history]_vars

\* C22: the reads an operation validates with and the writes it commits are
\* in one holding of the lock, so that what the validation found still holds
\* when the commit is made: the amount of a Transfer edit is within what the
\* payer has available, the idx of a delete is in range.
C22_ValidationHoldsAtCommit ==
    [][\A c \in Threads :
          /\ thr_apply_change_write(c) =>
                 loc[c].amt <= edit_transfer_avail(history, Tval(loc[c]), loc[c].pay)
          /\ thr_confirm_delete(c) => loc[c].idx \in 1..Len(history)]_vars

\* the same in terms of the lock: a thread that has validated and not yet
\* committed holds the lock
C22_LockHeldFromValidation ==
    \A c \in Threads : pc[c] \in {"et_checked", "del_dialog"} => lock = c

\* the part of C22 that holds: tr_submit validates and appends in one holding
C22_TransferValidatedAtCommit ==
    [][\A c \in Threads, a \in LockAmounts, p \in Participants, now \in Times :
          (thr_tr_submit(c, a, p, now) /\ ret'.status = "ok") =>
              q(a) <= available(history, p)]_vars

\* C23: whenever the lock is free the persisted state is the ledger in
\* memory: nothing persisted while the ledger is as it was constructed,
\* else what save_state writes for the ledger as it is now.
C23_PersistedIsMemory ==
    lock = 0 =>
        IF disk = <<>> THEN balance = 0 /\ history = <<>> /\ last_reset = <<>>
        ELSE disk = save_state(balance, history, last_reset)

\* C29: a confirmed delete removes the entry the dialog was opened for, and
\* raises nothing, whatever other threads deleted or reset in between.
C29_DeleteRemovesSelected ==
    [][\A c \in Threads :
          thr_confirm_delete(c) => ret'.status = "ok" /\ loc[c].t = loc[c].idx]_vars

\* C30: when an edit reports success, an entry of the history holds the
\* edited values.
C30_EditSuccessInHistory ==
    [][\A c \in Threads :
          (thr_apply_change_write(c) /\ ret'.status = "ok") =>
              \E i \in 1..Len(history') :
                  /\ history'[i].kind = "TRANSFER"
                  /\ history'[i].payer = loc[c].pay
                  /\ history'[i].transfer_amount = loc[c].amt]_vars

\* the shape of an entry of each kind
BetShape(t) ==
    /\ t.delta >= 0
    /\ t.delta = 0 => t.losers = "beide richtig"
    /\ t.payer = "" /\ t.receiver = "" /\ t.transfer_amount = 0

PurchaseShape(t) ==
    t.delta < 0 /\ t.receiver = "" /\ t.transfer_amount = 0

TransferShape(t) ==
    /\ t.delta = 0 /\ t.transfer_amount > 0
    /\ t.losers = "" /\ t.payer # t.receiver

\* C24: every entry of the history has the shape of its kind: a Bet a delta
\* >= 0 (0 only with "beide richtig"), no payer, no receiver and no transfer
\* amount; a Purchase a delta < 0, no receiver and no transfer amount; a
\* Transfer a delta of 0, a transfer amount > 0, no losers text and a payer
\* other than the receiver.
C24_EntryShapes ==
    \A i \in 1..Len(history) :
        /\ history[i].kind = "BET" => BetShape(history[i])
        /\ history[i].kind = "BEER" => PurchaseShape(history[i])
        /\ history[i].kind = "TRANSFER" => TransferShape(history[i])

\* a Bet that has just been edited to no losers, beside a Transfer
C24_Witness ==
    /\ op = "edit_bet" /\ ret.status = "ok" /\ Len(history) = 2
    /\ \E i \in 1..2 : history[i].kind = "BET" /\ history[i].delta = 0
    /\ \E i \in 1..2 : history[i].kind = "TRANSFER"

\* a step of record_bet, record_purchase or record_transfer
Recorded ==
    \/ \E sr \in BOOLEAN, vr \in BOOLEAN, c \in Comments, a \in Stakes, now \in Times :
           add_bet(sr, vr, c, a, now)
    \/ \E a \in Amounts, p \in Participants, c \in Comments, now \in Times :
           pay_beer(a, p, c, now)
    \/ \E a \in Amounts, p \in Participants, r \in Participants, now \in Times :
           transfer(a, p, r, "Ausgleich", now)

\* C25: a successful record_bet, record_purchase or record_transfer appends
\* exactly one entry at the end of the history and leaves the entries that
\* were there, their order and last_reset as they were; one that fails
\* appends nothing.
C25_RecordAppendsOne ==
    [][Recorded =>
          /\ last_reset' = last_reset
          /\ IF ret'.status = "ok"
                THEN AppendedOne(history, history')
                ELSE history' = history]_vars

\* a purchase was recorded behind a bet, after a reset
C25_Witness ==
    /\ op = "pay_beer" /\ ret.status = "ok"
    /\ Len(history) = 2 /\ history[1].kind = "BET" /\ history[2].kind = "BEER"
    /\ last_reset # <<>>

\* a recording was refused in a ledger with an entry
C25_WitnessRefused ==
    op \in Recording /\ ret.status # "ok" /\ Len(history) > 0

\* h2 is h but for the fields named in fields of the entry at idx
EditedOnly(h, h2, idx, fields) ==
    /\ Len(h2) = Len(h)
    /\ \A i \in 1..Len(h) : i # idx => h2[i] = h[i]
    /\ \A f \in DOMAIN h[idx] \ fields : h2[idx][f] = h[idx][f]

\* C26: a successful edit changes only the fields of its kind in the one
\* entry it is aimed at (Bet: losers, comment, delta; Purchase: payer,
\* comment, delta; Transfer: payer, receiver, transfer_amount, comment);
\* the entry's index, kind and timestamp, every other entry, the length of
\* the history and last_reset stay, and the balance afterwards is the
\* recomputation over the history.
C26_EditFrame ==
    [][/\ \A idx \in 1..Len(history), vs \in BOOLEAN, vv \in BOOLEAN, a \in Stakes, c \in Comments :
              (edit_bet_apply_change(idx, vs, vv, a, c) /\ ret'.status = "ok") =>
                  /\ EditedOnly(history, history', idx, {"losers", "comment", "delta"})
                  /\ last_reset' = last_reset
                  /\ balance' = BetPurchaseSum(history')
       /\ \A idx \in 1..Len(history), p \in Participants, a \in Amounts, c \in Comments :
              (edit_beer_apply_change(idx, p, a, c) /\ ret'.status = "ok") =>
                  /\ EditedOnly(history, history', idx, {"payer", "comment", "delta"})
                  /\ last_reset' = last_reset
                  /\ balance' = BetPurchaseSum(history')
       /\ \A idx \in 1..Len(history), p \in Participants, a \in Amounts, c \in Comments :
              (edit_transfer_apply_change(idx, p, a, c) /\ ret'.status = "ok") =>
                  /\ EditedOnly(history, history', idx,
                                {"payer", "receiver", "transfer_amount", "comment"})
                  /\ last_reset' = last_reset
                  /\ balance' = BetPurchaseSum(history')]_vars

\* the first of two entries, a Bet, has just been edited to a deposit other
\* than the purchase behind it leaves room for, after a reset
C26_Witness ==
    /\ op = "edit_bet" /\ ret.status = "ok" /\ Len(history) = 2
    /\ history[1].kind = "BET" /\ history[1].delta = 0
    /\ history[2].kind = "BEER" /\ balance = history[2].delta
    /\ last_reset # <<>>

\* what pay has in the ledger without the entry at idx
TotalWithout(h, idx, pay) == PayerTotal(RemoveAt(h, idx), pay)

Other(p) == IF p = "Sven" THEN "Sevi" ELSE "Sven"

\* C27: the edit of a Transfer is refused, the entry staying as it is, when
\* the new amount is above the new payer's total with the edited transfer
\* taken out; after an edit that went through the new payer's total is
\* >= 0, the receiver is the other participant and the balance is as
\* before.
C27_TransferEditFunds ==
    [][\A c \in Threads :
          /\ \A p \in Participants, a \in LockAmounts :
                 (/\ thr_apply_change_check(c, p, a) /\ loc[c].t > 0
                  /\ q(a) > TotalWithout(history, loc[c].t, p)) =>
                     ret'.status = "InsufficientFunds" /\ UNCHANGED history
          /\ (thr_apply_change_write(c) /\ loc[c].t > 0) =>
                 /\ PayerTotal(history', loc[c].pay) >= 0
                 /\ history'[loc[c].t].receiver = Other(history'[loc[c].t].payer)
                 /\ balance' = balance]_vars

\* the same for an edit that nothing comes in between of: the handler as
\* one step
C27_TransferEditFundsAlone ==
    [][\A idx \in 1..Len(history), p \in Participants, a \in Amounts, c \in Comments :
          edit_transfer_apply_change(idx, p, a, c) =>
              /\ (q(a) > 0 /\ q(a) > TotalWithout(history, idx, p)) =>
                     ret'.status = "InsufficientFunds" /\ UNCHANGED history
              /\ ret'.status = "ok" =>
                     /\ PayerTotal(history', p) >= 0
                     /\ history'[idx].receiver = Other(p)
                     /\ balance' = balance]_vars

\* C28: the two values of person_totals() add up to the balance of the pot.
C28_TotalsSumToBalance ==
    person_totals(history)[1] + person_totals(history)[2] = balance

\* a Bet both lost, edited, with a Purchase behind it
C28_Witness ==
    /\ op = "edit_bet" /\ ret.status = "ok" /\ Len(history) = 2
    /\ history[1].kind = "BET" /\ history[1].delta > 0
    /\ history[2].kind = "BEER"
    /\ person_totals(history)[1] # 0 /\ person_totals(history)[2] # 0

----------------------------------------------------------------------------
(* The export beside a reset or an import *)

\* C31: the text an export delivers is the export of one ledger state there
\* has been between its first reading and its last: the last_reset line and
\* the rows belong to the same state, whatever ran beside the export
C31_ExportIsSnapshot ==
    [][\A c \in Threads :
          thr_export_rows(c) =>
              \E h \in during[c] : ExportText(c) = export_csv(h, loc[c].lr)]_vars

----------------------------------------------------------------------------
(* The lock *)

\* no thread stands at a "with lock:" with the lock in its hand
NoReacquire == \A c \in Threads : pc[c] \in AtLock => lock # c

\* whoever holds the lock is inside a "with lock:": every way out of one,
\* the "return" of a refusal and an exception included, has let the lock go
ReleasedOutside ==
    lock # 0 => pc[lock] \in {Held(at) : at \in AtLock} \cup {"save"}

C32_WitnessRefused ==
    /\ op = "transfer" /\ ret.status = "InsufficientFunds"
    /\ lock = 0
    /\ \E c \in Threads : pc[c] = "aus_dialog"

====
